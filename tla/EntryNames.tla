----------------------------- MODULE EntryNames -----------------------------
(***************************************************************************)
(* The combo builder: the name of an entry put together from the fields of *)
(* a form, and the fields the editor finds in a name, which are what its    *)
(* form begins with (password_helpers.cpp, browser.cpp).                   *)
(*                                                                         *)
(* A text is a sequence of characters without blanks, so that trimming,    *)
(* which both directions do to every part, changes nothing.                *)
(***************************************************************************)
EXTENDS Naturals, SequencesExt

None == <<>>

\* The text before and after a position
Before(text, i) == SubSeq(text, 1, i - 1)
After(text, i)  == SubSeq(text, i + 1, Len(text))

\* std::string::find and rfind of a character; 0 is npos
Find(text, c)  == SelectInSeq(text, LAMBDA x : x = c)
RFind(text, c) == SelectLastInSeq(text, LAMBDA x : x = c)

\* The loop of find and replace, which goes on behind what it has put in
Replace(text, from, to) ==
  LET Found(i) == i + Len(from) - 1 <= Len(text) /\ SubSeq(text, i, i + Len(from) - 1) = from
      copy[i \in 1..(Len(text) + Len(from))] ==
        IF i > Len(text) THEN None
        ELSE IF Found(i) THEN to \o copy[i + Len(from)] ELSE <<text[i]>> \o copy[i + 1]
  IN  copy[1]

Percent   == <<"%", "2", "5">>
Slash     == <<"%", "2", "F">>
Backslash == <<"%", "5", "C">>

\* encode of build_entry_name_from_parts: the percent sign first
Encode(text) ==
  Replace(Replace(Replace(text, <<"%">>, Percent), <<"/">>, Slash), <<"\\">>, Backslash)

\* decode of unwrap_token: the percent sign last
Decode(text) ==
  Replace(Replace(Replace(text, Slash, <<"/">>), Backslash, <<"\\">>), Percent, <<"%">>)

-----------------------------------------------------------------------------
(* From the form to the entry                                              *)

Digit == <<"1", "2", "3", "4", "5", "6", "7", "8", "9">>

\* is_valid_port_text
IsValidPort(text) ==
  /\ ToSet(text) \subseteq ToSet(Digit) \union {"0"}
  /\ text # None => FoldLeft(LAMBDA n, c : 10 * n + Find(Digit, c), 0, text) \in 1..65535

\* normalize_query_text: one slash in front is dropped
NormalizeQuery(text) == IF IsPrefix(<<"/">>, text) THEN Tail(text) ELSE text

\* What add_password and edit_password take in combo mode
Accepted(form) ==
  /\ form.user # None /\ form.location # None /\ form.host # None
  /\ IsValidPort(form.port)

AccountValue(form) == form.user \o <<"@">> \o form.location

SiteValue(form) ==
  LET With(c, text) == IF text = None THEN None ELSE <<c>> \o text
  IN  form.host \o With(":", form.port) \o With("/", NormalizeQuery(form.query)) \o With("@", form.company)

\* build_entry_name_from_parts of tokens in brackets, which format_account_token
\* and format_site_token leave alone
EntryName(folder, account, site) ==
  LET leaf == <<"[">> \o Encode(account) \o <<"]", "@", "[">> \o Encode(site) \o <<"]">>
  IN  IF folder = None THEN leaf ELSE folder \o <<"/">> \o leaf

\* The entry made of a form
Build(form) ==
  [name     |-> EntryName(form.folder, AccountValue(form), SiteValue(form)),
   username |-> AccountValue(form),
   url      |-> SiteValue(form)]

\* validate_entry_name: no segment is empty, a dot or two
IsValidName(name) ==
  LET cuts == {i \in DOMAIN name : name[i] = "/"} \union {0, Len(name) + 1}
  IN  \A i, j \in cuts : i < j /\ ~(\E k \in cuts : i < k /\ k < j) =>
        SubSeq(name, i + 1, j - 1) \notin {None, <<".">>, <<".", ".">>}

-----------------------------------------------------------------------------
(* From the entry to the form                                              *)

\* find_top_level_at: the last @ outside brackets
TopLevelAt(leaf) ==
  LET depth[i \in 0..Len(leaf)] ==
        IF i = 0 THEN 0
        ELSE CASE leaf[i] = "[" -> depth[i - 1] + 1
               [] leaf[i] = "]" -> IF depth[i - 1] = 0 THEN 0 ELSE depth[i - 1] - 1
               [] OTHER         -> depth[i - 1]
      outside == [i \in DOMAIN leaf |-> IF depth[i] = 0 THEN leaf[i] ELSE "["]
  IN  RFind(outside, "@")

IsWrapped(token) == Len(token) > 1 /\ IsPrefix(<<"[">>, token) /\ IsSuffix(<<"]">>, token)

UnwrapToken(token) == Decode(IF IsWrapped(token) THEN SubSeq(token, 2, Len(token) - 1) ELSE token)

\* describe_entry
Describe(name) ==
  LET slash == RFind(name, "/")
      leaf  == After(name, slash)
      split == TopLevelAt(leaf)
  IN  [folder  |-> IF slash = 0 THEN None ELSE Before(name, slash),
       account |-> UnwrapToken(IF split = 0 THEN leaf ELSE Before(leaf, split)),
       site    |-> IF split = 0 THEN None ELSE UnwrapToken(After(leaf, split))]

\* split_account_value
SplitAccount(account) ==
  LET at == Find(account, "@")
  IN  IF at = 0 THEN [user |-> account, location |-> None]
                ELSE [user |-> Before(account, at), location |-> After(account, at)]

\* split_site_value: the company behind the last @, the query behind the first
\* slash, the port behind the last colon if it can be one
SplitSite(site) ==
  LET at       == RFind(site, "@")
      rest     == IF at = 0 THEN site ELSE Before(site, at)
      slash    == Find(rest, "/")
      hostPort == IF slash = 0 THEN rest ELSE Before(rest, slash)
      colon    == RFind(hostPort, ":")
      ported   == colon # 0 /\ IsValidPort(After(hostPort, colon))
  IN  [host    |-> IF ported THEN Before(hostPort, colon) ELSE hostPort,
       port    |-> IF ported THEN After(hostPort, colon) ELSE None,
       query   |-> IF slash = 0 THEN None ELSE NormalizeQuery(After(rest, slash)),
       company |-> IF at = 0 THEN None ELSE After(site, at)]

\* combo_defaults_from_entry
Defaults(entry) ==
  LET model   == Describe(entry.name)
      who     == SplitAccount(IF model.account # None THEN model.account ELSE entry.username)
      where   == SplitSite(IF model.site = None THEN entry.url ELSE model.site)
  IN  [folder |-> model.folder, user |-> who.user, location |-> who.location,
       host |-> where.host, port |-> where.port, query |-> where.query, company |-> where.company]

-----------------------------------------------------------------------------
(* The two directions together                                             *)

\* Fields whose characters are not taken for the builder's own.  A colon in the
\* middle of a host is none: it may be taken for a port, but builds the same name.
Unambiguous(form) ==
  /\ \A field \in {"user", "location", "host", "query", "company"} :
       {"[", "]"} \intersect ToSet(form[field]) = {}
  /\ \A field \in {"user", "host", "query", "company"} : "@" \notin ToSet(form[field])
  /\ "/" \notin ToSet(form.host)
  /\ ~IsPrefix(<<":">>, form.host) /\ ~IsSuffix(<<":">>, form.host)
  /\ ~IsPrefix(<<"/", "/">>, form.query)

\* What a form builds is a name save_entry takes, and an edit that takes every
\* default of its form saves the entry where it was: it does not rename it.
DefaultsKeepEntry(form) ==
  LET entry == Build(form)
  IN  /\ IsValidName(entry.name)
      /\ Accepted(Defaults(entry))
      /\ Build(Defaults(entry)) = entry
=============================================================================
