---------------------------- MODULE ClipboardLease ----------------------------
(***************************************************************************)
(* Copies to the clipboard that expire (src/src/util/clipboard_lease.cpp,  *)
(* clipboard_core.cpp) without the Windows helper: the user's thread copies *)
(* and starts one detached thread per lease; each thread polls the         *)
(* clipboard until its lease expires and then clears it.  Threads share    *)
(* the table of leases under a mutex and the active lease as an atomic;    *)
(* one action is one access to either, or one run of a clipboard tool.     *)
(***************************************************************************)
EXTENDS Integers, FiniteSets

CONSTANTS
  Secret,    \* texts syncpss copies
  Other,     \* what other programs copy
  Empty,     \* the empty text, and the empty clipboard
  MaxLeases  \* bound on copies

ASSUME ClipboardLeaseAssumption ==
  /\ MaxLeases \in Nat
  /\ Empty \notin Secret \union Other
  /\ Secret \intersect Other = {}

VARIABLES
  clipboard,  \* what a paste would give
  generation, \* g_clipboard_generation
  active,     \* g_active_clipboard_lease_id
  state,      \* LeaseRecord::state
  text,       \* LeaseRecord::text
  copied,     \* the argument of copy_to_clipboard_with_expiry, by lease
  expired,    \* leases whose deadline has passed
  phase,      \* where the user's thread is
  pc,         \* where the thread of a lease is
  final,      \* its loop has ended
  expected,   \* its expected_text
  verdict     \* the state it is about to set

table  == <<state, text>>
thread == <<pc, final, expected, verdict>>
vars   == <<clipboard, generation, active, table, copied, expired, phase, thread>>

Lease   == 1..MaxLeases
Text    == Secret \union {Empty}
Content == Text \union Other
State   == {"Pending", "Cleared", "Changed"}

TypeOK ==
  /\ clipboard \in Content
  /\ generation \in 0..MaxLeases
  /\ active \in 0..generation
  /\ state \in [Lease -> State]
  /\ text \in [Lease -> Text]
  /\ copied \in [Lease -> Text]
  /\ expired \in SUBSET Lease
  /\ phase \in {"idle", "activate", "copying", "launch", "exited"}
  /\ pc \in [Lease -> {"none", "loop", "current", "text", "read", "clearing",
                       "report", "reportOwn", "release", "done"}]
  /\ final \in [Lease -> BOOLEAN]
  /\ expected \in [Lease -> Text]
  /\ verdict \in [Lease -> State]

\* A lease that is not in the table reads as Changed and without text.
Init ==
  /\ clipboard \in Other \union {Empty}
  /\ generation = 0
  /\ active = 0
  /\ state = [i \in Lease |-> "Changed"]
  /\ text = [i \in Lease |-> Empty]
  /\ copied = text
  /\ expired = {}
  /\ phase = "idle"
  /\ pc = [i \in Lease |-> "none"]
  /\ final = [i \in Lease |-> FALSE]
  /\ expected = text
  /\ verdict = state

-----------------------------------------------------------------------------
(* copy_to_clipboard_with_expiry, on the user's thread                     *)

\* Under the mutex every other lease is superseded and loses its text.
Announce(t) ==
  /\ phase = "idle"
  /\ generation < MaxLeases
  /\ LET i == generation + 1 IN
       /\ generation' = i
       /\ state' = [j \in Lease |-> IF j = i THEN "Pending" ELSE "Changed"]
       /\ text' = [j \in Lease |-> IF j = i THEN t ELSE Empty]
       /\ copied' = [copied EXCEPT ![i] = t]
  /\ phase' = "activate"
  /\ UNCHANGED <<clipboard, active, expired, thread>>

\* A slip: the id is counted up once more.
ActivateNext ==
  /\ phase = "activate"
  /\ active' = generation + 1
  /\ phase' = "copying"
  /\ UNCHANGED <<clipboard, generation, table, copied, expired, thread>>

Activate ==
  /\ phase = "activate"
  /\ active' = generation
  /\ phase' = "copying"
  /\ UNCHANGED <<clipboard, generation, table, copied, expired, thread>>

\* copy_to_clipboard returned; the tool has put c on the clipboard.
ToolCopied(c) ==
  /\ clipboard' = c
  /\ phase' = "launch"
  /\ UNCHANGED table

\* It threw: no command, or the command failed.  No thread is started.
ToolFailed ==
  /\ state' = [state EXCEPT ![generation] = "Changed"]
  /\ phase' = "idle"
  /\ UNCHANGED <<clipboard, text>>

\* What a tool reads when run() gives it no input: stdin is the terminal.
Typed == Other \union {Empty}

\* The tool reads the text from a pipe.
CopyText ==
  /\ phase = "copying"
  /\ copied[generation] # Empty
  /\ ToolCopied(copied[generation]) \/ ToolFailed
  /\ UNCHANGED <<generation, active, copied, expired, thread>>

\* For an empty text there is no pipe: the tool waits for the terminal to end.
CopyNothing ==
  /\ phase = "copying"
  /\ copied[generation] = Empty
  /\ (\E c \in Typed : ToolCopied(c)) \/ ToolFailed
  /\ UNCHANGED <<generation, active, copied, expired, thread>>

\* The wait for the clipboard to show the text changes nothing; then the thread
\* starts.
Launch ==
  /\ phase = "launch"
  /\ pc' = [pc EXCEPT ![generation] = "loop"]
  /\ phase' = "idle"
  /\ UNCHANGED <<clipboard, generation, active, table, copied, expired, final, expected, verdict>>

Quit ==
  /\ phase = "idle"
  /\ phase' = "exited"
  /\ UNCHANGED <<clipboard, generation, active, table, copied, expired, thread>>

-----------------------------------------------------------------------------
(* The detached thread of lease i                                          *)

At(i, where) == phase # "exited" /\ pc[i] = where
Goto(i, where) == pc' = [pc EXCEPT ![i] = where]

Conclude(i, v) ==
  /\ Goto(i, "report")
  /\ verdict' = [verdict EXCEPT ![i] = v]

shared == <<clipboard, generation, active, table, copied, expired, phase>>

\* A slip: the loop does not look at the deadline.
LoopForever(i) ==
  /\ At(i, "loop")
  /\ Goto(i, "current")
  /\ UNCHANGED <<shared, final, expected, verdict>>

\* Sleep, then the loop condition; the checks after the loop are those in it.
LoopTest(i) ==
  /\ At(i, "loop")
  /\ Goto(i, "current")
  /\ final' = [final EXCEPT ![i] = i \in expired]
  /\ UNCHANGED <<shared, expected, verdict>>

\* clipboard_lease_is_current
CheckCurrent(i) ==
  /\ At(i, "current")
  /\ IF active = i
       THEN Goto(i, "text") /\ UNCHANGED verdict
       ELSE Conclude(i, "Changed")
  /\ UNCHANGED <<shared, final, expected>>

\* clipboard_lease_text
ReadText(i) ==
  /\ At(i, "text")
  /\ expected' = [expected EXCEPT ![i] = text[i]]
  /\ IF text[i] # Empty
       THEN Goto(i, "read") /\ UNCHANGED verdict
       ELSE Conclude(i, "Changed")
  /\ UNCHANGED <<shared, final>>

\* read_clipboard_text gives the empty text when the tool fails.
Seen == {clipboard, Empty}

ReadClipboard(i) ==
  /\ At(i, "read")
  /\ \E c \in Seen :
       \/ /\ c = Empty
          /\ Conclude(i, "Cleared")
       \/ /\ c \notin {Empty, expected[i]}
          /\ Conclude(i, "Changed")
       \/ /\ c = expected[i]
          /\ Goto(i, IF final[i] THEN "clearing" ELSE "loop")
          /\ UNCHANGED verdict
  /\ UNCHANGED <<shared, final, expected>>

\* clear_clipboard copies the empty text: the tool waits for the terminal to
\* end.  When it fails the exception leaves Changed.
ClearClipboard(i) ==
  /\ At(i, "clearing")
  /\ \/ /\ clipboard' \in Typed
        /\ Goto(i, "reportOwn")
        /\ verdict' = [verdict EXCEPT ![i] = "Cleared"]
     \/ /\ Conclude(i, "Changed")
        /\ UNCHANGED clipboard
  /\ UNCHANGED <<generation, active, table, copied, expired, phase, final, expected>>

\* set_clipboard_lease_state
Report(i) ==
  /\ \/ At(i, "report") /\ Goto(i, "done")
     \/ At(i, "reportOwn") /\ Goto(i, "release")
  /\ state' = [state EXCEPT ![i] = verdict[i]]
  /\ UNCHANGED <<clipboard, generation, active, text, copied, expired, phase, final, expected, verdict>>

\* A slip: a plain store.
ReleaseAnyway(i) ==
  /\ At(i, "release")
  /\ active' = 0
  /\ Goto(i, "done")
  /\ UNCHANGED <<clipboard, generation, table, copied, expired, phase, final, expected, verdict>>

\* compare_exchange: only a lease that is still active is released.
Release(i) ==
  /\ At(i, "release")
  /\ active' = IF active = i THEN 0 ELSE active
  /\ Goto(i, "done")
  /\ UNCHANGED <<clipboard, generation, table, copied, expired, phase, final, expected, verdict>>

-----------------------------------------------------------------------------
(* Time and other programs                                                 *)

Expire(i) ==
  /\ pc[i] # "none"
  /\ i \notin expired
  /\ expired' = expired \union {i}
  /\ UNCHANGED <<clipboard, generation, active, table, copied, phase, thread>>

OtherCopies ==
  /\ clipboard' \in Other
  /\ UNCHANGED <<generation, active, table, copied, expired, phase, thread>>

-----------------------------------------------------------------------------
User == Activate \/ CopyText \/ Launch

Thread(i) ==
  LoopTest(i) \/ CheckCurrent(i) \/ ReadText(i) \/ ReadClipboard(i) \/ Report(i) \/ Release(i)

Next ==
  \/ \E t \in Text : Announce(t)
  \/ User \/ CopyNothing \/ Quit
  \/ \E i \in Lease : Thread(i) \/ ClearClipboard(i) \/ Expire(i)
  \/ OtherCopies

\* Threads are scheduled, tools with input end and time passes.  Nothing makes
\* the user end the terminal's input.
Fairness ==
  /\ WF_vars(User)
  /\ \A i \in Lease : WF_vars(Thread(i)) /\ WF_vars(Expire(i))

Spec == Init /\ [][Next]_vars /\ Fairness

-----------------------------------------------------------------------------
\* The newest lease stays the active one until its own thread has ended: an
\* older thread that finishes late does not release it.
NewestStaysActive ==
  phase # "activate" /\ generation > 0 /\ pc[generation] # "done" => active = generation

\* Every thread comes to its end or to the command that clears the clipboard,
\* whatever is copied meanwhile.
ThreadsEnd ==
  \A i \in Lease : pc[i] = "loop" ~> pc[i] \in {"clearing", "done"} \/ phase = "exited"
=============================================================================
