-------------------------- MODULE ProcessRunnerProofs --------------------------
(***************************************************************************)
(* The type invariant of ProcessRunner, that a run captures the whole      *)
(* output of its child, and that a child that ends by itself has read its  *)
(* whole input, for any number of threads and any capacity of a pipe.      *)
(***************************************************************************)
EXTENDS ProcessRunner, TLAPS

\* A child runs only inside the call that forked it, and keeps its stdout.
ChildOK ==
  \A t \in Thread :
    /\ pc[t] = "piped" => Parent \in outWriters[t]
    /\ child[t] = "running" => pc[t] \in {"forked", "writing", "reading"} /\ t \in outWriters[t]

\* Every block written by the child has been captured or is in the pipe.
FlowOK == \A t \in Thread : captured[t] + out[t] = produced[t]

\* After the end of file the pipe is empty, and no process can write to it.
OutputOK == \A t \in Thread : pc[t] = "waiting" => out[t] = 0 /\ outWriters[t] = {}

\* The parent keeps the write end while there is input to write; a child that
\* has ended by itself was given all of it.
InputOK ==
  \A t \in Thread :
    /\ toWrite[t] > 0 => Parent \in inWriters[t]
    /\ child[t] = "finished" => toWrite[t] = 0 /\ in[t] = 0

IInv == TypeOK /\ ChildOK /\ FlowOK /\ OutputOK /\ InputOK

USE ProcessRunnerAssumption

LEMMA InitIInv == Init => IInv
<1> SUFFICES ASSUME Init PROVE IInv OBVIOUS
<1> USE DEF Init
<1>1. [input |-> 0, output |-> 0, kind |-> "drains"] \in AnyCall BY DEF AnyCall, Kind
<1>2. TypeOK
  <2>1. toWrite \in [Thread -> {0}] /\ in = toWrite /\ out = toWrite /\ produced = toWrite /\ captured = toWrite /\ runs = toWrite
    OBVIOUS
  <2>2. {0} \subseteq 0..MaxInput /\ {0} \subseteq 0..MaxOutput /\ {0} \subseteq 0..Cap /\ {0} \subseteq 0..MaxRuns
    OBVIOUS
  <2>3. /\ inWriters \in [Thread -> SUBSET Process]
        /\ inReaders \in [Thread -> SUBSET Process]
        /\ outWriters \in [Thread -> SUBSET Process]
    OBVIOUS
  <2>4. call \in [Thread -> AnyCall] BY <1>1
  <2>5. /\ toWrite \in [Thread -> 0..MaxInput]
        /\ in \in [Thread -> 0..Cap] /\ out \in [Thread -> 0..Cap]
        /\ produced \in [Thread -> 0..MaxOutput] /\ captured \in [Thread -> 0..MaxOutput]
        /\ runs \in [Thread -> 0..MaxRuns]
    BY <2>1, <2>2
  <2>6. pc \in [Thread -> {"idle", "piped", "forked", "writing", "reading", "waiting"}]
    OBVIOUS
  <2>7. child \in [Thread -> {"none", "running", "finished", "failed"}] /\ killed \in BOOLEAN
    OBVIOUS
  <2> QED BY <2>3, <2>4, <2>5, <2>6, <2>7 DEF TypeOK
<1>3. ChildOK /\ FlowOK /\ OutputOK /\ InputOK BY DEF ChildOK, FlowOK, OutputOK, InputOK
<1> QED BY <1>2, <1>3 DEF IInv

LEMMA RunStep ==
  ASSUME IInv, NEW t \in Thread, NEW c \in Calls(t), Run(t, c)
  PROVE  IInv'
<1>0. c \in AnyCall /\ c.input \in 0..MaxInput BY DEF Calls, AnyCall
<1>1. pc[t] = "idle" /\ ~killed BY DEF Run, At
<1>2. TypeOK'
  BY <1>0, <1>1 DEF IInv, TypeOK, Run, Goto, Process
<1>3. ChildOK' BY <1>1 DEF IInv, TypeOK, ChildOK, Run, Goto
<1>4. FlowOK' BY <1>1 DEF IInv, TypeOK, FlowOK, Run
<1>5. OutputOK' BY <1>1 DEF IInv, TypeOK, OutputOK, Run, Goto
<1>6. InputOK' BY <1>0, <1>1 DEF IInv, TypeOK, InputOK, Run
<1> QED BY <1>2, <1>3, <1>4, <1>5, <1>6 DEF IInv

LEMMA ForkStep ==
  ASSUME IInv, NEW t \in Thread, Fork(t)
  PROVE  IInv'
<1>1. \A u \in Thread :
        /\ outWriters'[u] \in SUBSET Process
        /\ inWriters'[u] \in SUBSET Process
        /\ inReaders'[u] \in SUBSET Process
        /\ outWriters[u] \subseteq outWriters'[u]
        /\ Parent \in inWriters[u] => Parent \in inWriters'[u]
        /\ outWriters[u] = {} => outWriters'[u] = {}
  BY DEF IInv, TypeOK, Fork, Inherit, Process
<1>2. TypeOK'
  <2>1. /\ outWriters' \in [Thread -> SUBSET Process]
        /\ inWriters' \in [Thread -> SUBSET Process]
        /\ inReaders' \in [Thread -> SUBSET Process]
    BY DEF IInv, TypeOK, Fork, Inherit, Process
  <2> QED BY <2>1 DEF IInv, TypeOK, Fork, Goto
<1>3. ChildOK'
  <2>1. pc[t] = "piped" /\ Parent \in outWriters[t] => t \in outWriters'[t]
    BY DEF IInv, TypeOK, Fork, Inherit
  <2> QED BY <1>1, <2>1 DEF IInv, TypeOK, ChildOK, Fork, Goto, At
<1>4. FlowOK' BY DEF IInv, FlowOK, Fork
<1>5. OutputOK' BY <1>1 DEF IInv, TypeOK, OutputOK, Fork, Goto
<1>6. InputOK' BY <1>1 DEF IInv, TypeOK, InputOK, Fork
<1> QED BY <1>2, <1>3, <1>4, <1>5, <1>6 DEF IInv

LEMMA ParentStep ==
  ASSUME IInv, NEW t \in Thread, Steps(t)
  PROVE  IInv'
<1> USE DEF IInv, TypeOK, ChildOK, FlowOK, OutputOK, InputOK, At, Goto
<1>1. CASE Fork(t) BY <1>1, ForkStep
<1>2. CASE CloseChildEnds(t)
  <2>1. inReaders' \in [Thread -> SUBSET Process] /\ outWriters' \in [Thread -> SUBSET Process]
    BY <1>2 DEF CloseChildEnds
  <2>3. TypeOK'
    <3>1. pc' \in [Thread -> {"idle", "piped", "forked", "writing", "reading", "waiting"}]
      BY <1>2 DEF CloseChildEnds
    <3> QED BY <1>2, <2>1, <3>1 DEF CloseChildEnds
  <2>2. ChildOK' BY <1>2 DEF CloseChildEnds
  <2> QED BY <1>2, <2>2, <2>3 DEF CloseChildEnds
<1>3. CASE WriteAll(t)
  <2>1. /\ toWrite' \in [Thread -> 0..MaxInput] /\ in' \in [Thread -> 0..Cap]
        /\ killed' \in BOOLEAN
    <3>1. CASE inReaders[t] = {}
      <4>1. UNCHANGED <<toWrite, in>> /\ killed' = TRUE BY <1>3, <3>1 DEF WriteAll
      <4> QED BY <4>1
    <3>2. CASE inReaders[t] # {}
      <4>1. toWrite[t] \in 1..MaxInput /\ in[t] \in 0..Cap - 1 BY <1>3, <3>2 DEF WriteAll
      <4>2. UNCHANGED killed /\ toWrite' = [toWrite EXCEPT ![t] = @ - 1] /\ in' = [in EXCEPT ![t] = @ + 1]
        BY <1>3, <3>2 DEF WriteAll
      <4> QED BY <4>1, <4>2
    <3> QED BY <3>1, <3>2
  <2>2. TypeOK' BY <1>3, <2>1 DEF WriteAll
  <2> QED BY <1>3, <2>2 DEF WriteAll
<1>4. CASE CloseStdin(t)
  <2>1. TypeOK' BY <1>4 DEF CloseStdin, Process
  <2> QED BY <1>4, <2>1 DEF CloseStdin
<1>5. CASE Capture(t)
  <2>1. captured[t] + out[t] \in 0..MaxOutput
    BY <1>5 DEF Capture
  <2>2. TypeOK' BY <1>5, <2>1 DEF Capture
  <2> QED BY <1>5, <2>1, <2>2 DEF Capture
<1>6. CASE EndOfOutput(t)
  BY <1>6 DEF EndOfOutput, pipes
<1>7. CASE Wait(t)
  BY <1>7 DEF Wait, pipes
<1> QED BY <1>1, <1>2, <1>3, <1>4, <1>5, <1>6, <1>7 DEF Steps

LEMMA ChildStep ==
  ASSUME IInv, NEW t \in Thread, Works(t) \/ ChildFails(t)
  PROVE  IInv'
<1> USE DEF IInv, TypeOK, ChildOK, FlowOK, OutputOK, InputOK, AnyCall
<1>1. CASE ChildRead(t) BY <1>1 DEF ChildRead
<1>2. CASE ChildWrite(t)
  <2>1. call[t].output \in 0..MaxOutput BY DEF AnyCall
  <2>2. TypeOK' BY <1>2, <2>1 DEF ChildWrite
  <2> QED BY <1>2, <2>2 DEF ChildWrite
<1>3. ASSUME NEW how \in {"finished", "failed"}, Gone(t, how), child[t] = "running",
             how = "finished" => toWrite[t] = 0 /\ in[t] = 0
      PROVE  IInv'
  <2>1. TypeOK' BY <1>3 DEF Gone, Process
  <2>2. ChildOK' BY <1>3 DEF Gone
  <2>3. (FlowOK /\ OutputOK)' BY <1>3 DEF Gone
  <2>4. InputOK'
    <3>1. \A u \in Thread : Parent \in inWriters[u] => Parent \in inWriters'[u]
      BY <1>3 DEF Gone
    <3> QED BY <1>3, <3>1 DEF Gone
  <2> QED BY <2>1, <2>2, <2>3, <2>4
<1>4. CASE ChildExit(t)
  BY <1>3, <1>4 DEF ChildExit, InputEnded
<1>5. CASE ChildFails(t)
  BY <1>3, <1>5 DEF ChildFails
<1> QED BY <1>1, <1>2, <1>4, <1>5 DEF Works

LEMMA NextIInv == IInv /\ [Next]_vars => IInv'
<1> SUFFICES ASSUME IInv, [Next]_vars PROVE IInv' OBVIOUS
<1>1. CASE UNCHANGED vars
  BY <1>1 DEF vars, pipes, IInv, TypeOK, ChildOK, FlowOK, OutputOK, InputOK
<1>2. CASE Finished
  BY <1>1, <1>2 DEF Finished
<1> QED BY RunStep, ParentStep, ChildStep, <1>1, <1>2 DEF Next

\* Types, for any threads and any bounds.
THEOREM RunnerTypeCorrect == Spec => []TypeOK
<1>1. IInv => TypeOK BY DEF IInv
<1> QED BY InitIInv, NextIInv, <1>1, PTL DEF Spec

\* No output of a child is lost, for any interleaving of any number of runs.
THEOREM WholeOutputCaptured == Spec => []OutputCaptured
<1>1. IInv => OutputCaptured
  BY DEF IInv, TypeOK, FlowOK, OutputOK, OutputCaptured
<1> QED BY InitIInv, NextIInv, <1>1, PTL DEF Spec

\* No input of a child that ends by itself is lost.
THEOREM WholeInputDelivered == Spec => []InputDelivered
<1>1. IInv => InputDelivered BY DEF IInv, InputOK, InputDelivered
<1> QED BY InitIInv, NextIInv, <1>1, PTL DEF Spec
=============================================================================
