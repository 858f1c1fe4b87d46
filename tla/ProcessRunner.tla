----------------------------- MODULE ProcessRunner -----------------------------
(***************************************************************************)
(* Child processes with pipes: run and wait_and_capture of                 *)
(* src/src/util/process.cpp, called from the user's thread and from the    *)
(* detached threads at the same time.  Pipes are not close-on-exec: a      *)
(* child forked by one thread inherits the pipe ends that the other        *)
(* threads hold open.  Data is counted in blocks; stdout and stderr, which *)
(* the code treats alike, are one pipe.                                    *)
(***************************************************************************)
EXTENDS Integers, FiniteSets

CONSTANTS
  Thread,     \* threads of syncpss
  User,       \* the one that gives input to its children
  Parent,     \* syncpss, as a holder of pipe ends
  Cap,        \* capacity of a pipe
  MaxInput,   \* bound on the input of a child
  MaxOutput,  \* bound on its output
  MaxRuns     \* bound on the runs of a thread

ASSUME ProcessRunnerAssumption ==
  /\ User \in Thread
  /\ Parent \notin Thread
  /\ Cap \in Nat \ {0}
  /\ MaxInput \in Nat
  /\ MaxOutput \in Nat
  /\ MaxRuns \in Nat

VARIABLES
  pc,        \* where the call of a thread is
  call,      \* the child it runs
  toWrite,   \* stdin_input not yet written
  in, out,   \* contents of the pipes
  inWriters, inReaders, outWriters,  \* processes that hold an end open
  child,     \* the child of a thread
  produced,  \* blocks it has written
  captured,  \* blocks the parent has read
  runs,      \* runs started
  killed     \* SIGPIPE has ended syncpss

pipes  == <<in, out, inWriters, inReaders, outWriters>>
vars   == <<pc, call, toWrite, pipes, child, produced, captured, runs, killed>>

\* The child of thread t is named t.
Process == Thread \union {Parent}

\* What the commands do that syncpss runs: "drains" reads its input to the end
\* and then writes (sha256sum, gpg --encrypt --output); "streams" writes as it
\* reads, no more than a pipe holds (gpg --import-ownertrust, pass); "waits"
\* gets no input and reads the terminal (xclip on an empty text).
Kind == {"drains", "streams", "waits"}

Calls(t) ==
  {c \in [input : 0..MaxInput, output : 0..MaxOutput, kind : Kind] :
     /\ t # User => c.input = 0
     /\ c.kind = "streams" => c.output <= Cap
     /\ c.kind = "waits" => c.input = 0}

AnyCall == [input : 0..MaxInput, output : 0..MaxOutput, kind : Kind]

TypeOK ==
  /\ pc \in [Thread -> {"idle", "piped", "forked", "writing", "reading", "waiting"}]
  /\ call \in [Thread -> AnyCall]
  /\ toWrite \in [Thread -> 0..MaxInput]
  /\ in \in [Thread -> 0..Cap] /\ out \in [Thread -> 0..Cap]
  /\ inWriters \in [Thread -> SUBSET Process]
  /\ inReaders \in [Thread -> SUBSET Process]
  /\ outWriters \in [Thread -> SUBSET Process]
  /\ child \in [Thread -> {"none", "running", "finished", "failed"}]
  /\ produced \in [Thread -> 0..MaxOutput]
  /\ captured \in [Thread -> 0..MaxOutput]
  /\ runs \in [Thread -> 0..MaxRuns]
  /\ killed \in BOOLEAN

Init ==
  /\ pc = [t \in Thread |-> "idle"]
  /\ call = [t \in Thread |-> [input |-> 0, output |-> 0, kind |-> "drains"]]
  /\ toWrite = [t \in Thread |-> 0]
  /\ in = toWrite /\ out = toWrite
  /\ inWriters = [t \in Thread |-> {}]
  /\ inReaders = inWriters /\ outWriters = inWriters
  /\ child = [t \in Thread |-> "none"]
  /\ produced = toWrite /\ captured = toWrite /\ runs = toWrite
  /\ killed = FALSE

-----------------------------------------------------------------------------
(* The calling thread                                                      *)

At(t, where) == ~killed /\ pc[t] = where
Goto(t, where) == pc' = [pc EXCEPT ![t] = where]

\* The pipes are made; one for stdin only when there is input.
Run(t, c) ==
  /\ At(t, "idle")
  /\ runs[t] < MaxRuns
  /\ runs' = [runs EXCEPT ![t] = @ + 1]
  /\ call' = [call EXCEPT ![t] = c]
  /\ toWrite' = [toWrite EXCEPT ![t] = c.input]
  /\ LET stdin == IF c.input > 0 THEN {Parent} ELSE {} IN
       /\ inWriters' = [inWriters EXCEPT ![t] = stdin]
       /\ inReaders' = [inReaders EXCEPT ![t] = stdin]
  /\ outWriters' = [outWriters EXCEPT ![t] = {Parent}]
  /\ in' = [in EXCEPT ![t] = 0]
  /\ out' = [out EXCEPT ![t] = 0]
  /\ produced' = [produced EXCEPT ![t] = 0]
  /\ captured' = [captured EXCEPT ![t] = 0]
  /\ child' = [child EXCEPT ![t] = "none"]
  /\ Goto(t, "piped")
  /\ UNCHANGED killed

\* A forked child holds every end the parent holds.
Inherit(holders, t) == [u \in Thread |-> holders[u] \union (IF Parent \in holders[u] THEN {t} ELSE {})]

\* fork; the child keeps the ends that became its stdin, stdout and stderr, and
\* closes the other ends of its own pipes.
Fork(t) ==
  /\ At(t, "piped")
  /\ child' = [child EXCEPT ![t] = "running"]
  /\ inWriters' = [Inherit(inWriters, t) EXCEPT ![t] = @ \ {t}]
  /\ inReaders' = Inherit(inReaders, t)
  /\ outWriters' = Inherit(outWriters, t)
  /\ Goto(t, "forked")
  /\ UNCHANGED <<call, toWrite, in, out, produced, captured, runs, killed>>

\* A slip: the parent keeps its copy of the child's stdout.
CloseStdinOnly(t) ==
  /\ At(t, "forked")
  /\ inReaders' = [inReaders EXCEPT ![t] = @ \ {Parent}]
  /\ Goto(t, "writing")
  /\ UNCHANGED <<call, toWrite, in, out, inWriters, outWriters, child, produced, captured, runs, killed>>

\* The parent closes the child's ends.
CloseChildEnds(t) ==
  /\ At(t, "forked")
  /\ inReaders' = [inReaders EXCEPT ![t] = @ \ {Parent}]
  /\ outWriters' = [outWriters EXCEPT ![t] = @ \ {Parent}]
  /\ Goto(t, "writing")
  /\ UNCHANGED <<call, toWrite, in, out, inWriters, child, produced, captured, runs, killed>>

\* write_all blocks while the pipe is full.  With no reader left the write
\* raises SIGPIPE, which syncpss neither ignores nor handles.
WriteAll(t) ==
  /\ At(t, "writing")
  /\ toWrite[t] > 0
  /\ IF inReaders[t] = {}
       THEN killed' = TRUE /\ UNCHANGED <<toWrite, in>>
       ELSE /\ in[t] < Cap
            /\ in' = [in EXCEPT ![t] = @ + 1]
            /\ toWrite' = [toWrite EXCEPT ![t] = @ - 1]
            /\ UNCHANGED killed
  /\ UNCHANGED <<pc, call, out, inWriters, inReaders, outWriters, child, produced, captured, runs>>

\* A slip: one write, without the loop that retries a partial one.
CloseStdinEarly(t) ==
  /\ At(t, "writing")
  /\ toWrite[t] < call[t].input \/ toWrite[t] = 0
  /\ inWriters' = [inWriters EXCEPT ![t] = @ \ {Parent}]
  /\ Goto(t, "reading")
  /\ UNCHANGED <<call, toWrite, in, out, inReaders, outWriters, child, produced, captured, runs, killed>>

CloseStdin(t) ==
  /\ At(t, "writing")
  /\ toWrite[t] = 0
  /\ inWriters' = [inWriters EXCEPT ![t] = @ \ {Parent}]
  /\ Goto(t, "reading")
  /\ UNCHANGED <<call, toWrite, in, out, inReaders, outWriters, child, produced, captured, runs, killed>>

\* A slip: what was read is appended again by the next round.
CaptureAgain(t) ==
  /\ At(t, "reading")
  /\ out[t] > 0
  /\ captured' = [captured EXCEPT ![t] = @ + out[t]]
  /\ UNCHANGED <<pc, call, toWrite, pipes, child, produced, runs, killed>>

\* select and append_from_fd
Capture(t) ==
  /\ At(t, "reading")
  /\ out[t] > 0
  /\ captured' = [captured EXCEPT ![t] = @ + out[t]]
  /\ out' = [out EXCEPT ![t] = 0]
  /\ UNCHANGED <<pc, call, toWrite, in, inWriters, inReaders, outWriters, child, produced, runs, killed>>

\* A slip: the loop ends with the child.
EndWithChild(t) ==
  /\ At(t, "reading")
  /\ child[t] # "running"
  /\ Goto(t, "waiting")
  /\ UNCHANGED <<call, toWrite, pipes, child, produced, captured, runs, killed>>

\* End of file: nothing to read and no writer left, whoever it is.
EndOfOutput(t) ==
  /\ At(t, "reading")
  /\ out[t] = 0
  /\ outWriters[t] = {}
  /\ Goto(t, "waiting")
  /\ UNCHANGED <<call, toWrite, pipes, child, produced, captured, runs, killed>>

\* waitpid
Wait(t) ==
  /\ At(t, "waiting")
  /\ child[t] # "running"
  /\ Goto(t, "idle")
  /\ UNCHANGED <<call, toWrite, pipes, child, produced, captured, runs, killed>>

-----------------------------------------------------------------------------
(* The child of thread t                                                   *)

ChildRead(t) ==
  /\ child[t] = "running"
  /\ in[t] > 0
  /\ in' = [in EXCEPT ![t] = @ - 1]
  /\ UNCHANGED <<pc, call, toWrite, out, inWriters, inReaders, outWriters, child, produced, captured, runs, killed>>

InputEnded(t) == in[t] = 0 /\ inWriters[t] = {} /\ call[t].kind # "waits"

ChildWrite(t) ==
  /\ child[t] = "running"
  /\ call[t].kind = "streams" \/ InputEnded(t)
  /\ produced[t] < call[t].output
  /\ out[t] < Cap
  /\ out' = [out EXCEPT ![t] = @ + 1]
  /\ produced' = [produced EXCEPT ![t] = @ + 1]
  /\ UNCHANGED <<pc, call, toWrite, in, inWriters, inReaders, outWriters, child, captured, runs, killed>>

\* The child is gone and with it every end it held.
Gone(t, how) ==
  /\ child' = [child EXCEPT ![t] = how]
  /\ inWriters' = [u \in Thread |-> inWriters[u] \ {t}]
  /\ inReaders' = [u \in Thread |-> inReaders[u] \ {t}]
  /\ outWriters' = [u \in Thread |-> outWriters[u] \ {t}]
  /\ UNCHANGED <<pc, call, toWrite, in, out, produced, captured, runs, killed>>

ChildExit(t) ==
  /\ child[t] = "running"
  /\ InputEnded(t)
  /\ produced[t] = call[t].output
  /\ Gone(t, "finished")

\* It may also stop before it has read its input: a command that is not found,
\* a key gpg does not know.
ChildFails(t) ==
  /\ child[t] = "running"
  /\ Gone(t, "failed")

-----------------------------------------------------------------------------
Steps(t) ==
  Fork(t) \/ CloseChildEnds(t) \/ WriteAll(t) \/ CloseStdin(t) \/ Capture(t) \/ EndOfOutput(t) \/ Wait(t)

Works(t) == ChildRead(t) \/ ChildWrite(t) \/ ChildExit(t)

\* Nothing is left to do within the bounds.
Finished ==
  /\ killed \/ \A t \in Thread : pc[t] = "idle" /\ runs[t] = MaxRuns
  /\ UNCHANGED vars

Next ==
  \/ \E t \in Thread : Steps(t) \/ Works(t) \/ ChildFails(t) \/ \E c \in Calls(t) : Run(t, c)
  \/ Finished

\* The kernel runs every thread and every child that can go on; no child has to
\* fail, and nothing ends the terminal's input.
Fairness == \A t \in Thread : WF_vars(Steps(t)) /\ WF_vars(Works(t))

Spec == Init /\ [][Next]_vars /\ Fairness

-----------------------------------------------------------------------------
\* A run ends with everything its child has written, however the end of the
\* child, the reads and the children of other threads interleave.
OutputCaptured == \A t \in Thread : pc[t] = "waiting" => captured[t] = produced[t]

\* A child that ends by itself has been given all of its input: end of file
\* never comes before the last block is in the pipe.
InputDelivered ==
  \A t \in Thread : child[t] = "finished" => toWrite[t] = 0 /\ in[t] = 0

\* Every run returns, although a child may hold the pipe ends of another run,
\* unless a child waits for the terminal.
RunsReturn ==
  \A t \in Thread :
    pc[t] # "idle" ~>
      pc[t] = "idle" \/ killed \/ \E u \in Thread : child[u] = "running" /\ call[u].kind = "waits"
=============================================================================
