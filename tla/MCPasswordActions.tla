------------------------- MODULE MCPasswordActions -------------------------
EXTENDS PasswordActions

CONSTANTS work, home, site, alice, bob, t1, spelled, note

\* The folder work may be an entry itself and holds the folder home, which
\* holds the entry site.
Within == [f \in {work, home} |-> IF f = work THEN {work, site} ELSE {site}]

\* The combo builder writes the account into the name.
Built == {<<site, bob>>}

\* Two spellings of a username, which share a token, and the token of no username
Tokens == {spelled, note}
Sanitized == [u \in User \union {NoUser} |-> IF u = NoUser THEN note ELSE spelled]

\* A note for every entry, or no notes.json
PlainNotes == {[n \in Name |-> t1], Absent}

-----------------------------------------------------------------------------
(* The builder itself, on short texts                                      *)

EN == INSTANCE EntryNames

Texts(chars, n) == UNION {[1..k -> chars] : k \in 0..n}

\* Forms that put their characters into the site, and into the account
SiteForms ==
  [folder : {<<>>, <<"d">>}, user : {<<"u">>}, location : {<<"l">>},
   host : Texts({"h", "8", ":", ".", "/"}, 3), port : {<<>>, <<"0">>, <<"8">>},
   query : Texts({"q", "/", "\\"}, 2), company : {<<>>, <<"c">>}]

AccountForms ==
  [folder : {<<>>}, user : Texts({"u", "[", "%", "2", "F", "/"}, 2),
   location : Texts({"l", "@", "]", "%"}, 2),
   host : {<<"h">>, <<"%", "2", "F">>, <<"%", "2", "5">>}, port : {<<>>},
   query : {<<>>, <<"q", "@">>}, company : {<<>>, <<"c">>}]

\* The editor keeps the name of an entry the builder made, unless the fields
\* hold separators.
ASSUME BuilderAssumption ==
  \A form \in SiteForms \union AccountForms :
    EN!Accepted(form) /\ EN!Unambiguous(form) => EN!DefaultsKeepEntry(form)
=============================================================================
