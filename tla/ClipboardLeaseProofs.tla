-------------------------- MODULE ClipboardLeaseProofs --------------------------
(***************************************************************************)
(* The lease of a copied secret, for any texts and any number of copies:    *)
(* types, and that the newest lease stays the active one.                  *)
(***************************************************************************)
EXTENDS ClipboardLease, TLAPS

\* No thread runs for a lease before its copy has been announced, nor for the
\* newest one before its copy is on the clipboard.
ThreadsFollow ==
  \A i \in Lease :
    pc[i] # "none" =>
      /\ i <= generation
      /\ phase \in {"activate", "copying", "launch"} => i # generation

\* Between copies the newest lease is active until its thread releases it.
ActiveOK ==
  /\ phase # "idle" /\ phase # "exited" => generation > 0
  /\ phase # "activate" /\ generation > 0 =>
       active = generation \/ (active = 0 /\ pc[generation] = "done")

IInv == TypeOK /\ ThreadsFollow /\ ActiveOK

USE ClipboardLeaseAssumption

LEMMA InitIInv == Init => IInv
  BY DEF Init, IInv, TypeOK, ThreadsFollow, ActiveOK, Lease, Text, Content, State

\* The steps of the user's thread
LEMMA UserStep ==
  ASSUME IInv, (\E t \in Text : Announce(t)) \/ User \/ CopyNothing \/ Quit
  PROVE  IInv'
<1> USE DEF IInv, TypeOK, ThreadsFollow, ActiveOK, Lease, Text, Content, State, table, thread
<1>1. ASSUME NEW t \in Text, Announce(t) PROVE IInv'
  <2>1. generation + 1 \in Lease BY <1>1 DEF Announce
  <2> QED BY <1>1, <2>1 DEF Announce
<1>2. CASE Activate
  BY <1>2 DEF Activate
<1>3. CASE CopyText
  BY <1>3 DEF CopyText, ToolCopied, ToolFailed
<1>4. CASE Launch
  <2>1. generation \in Lease BY <1>4 DEF Launch
  <2> QED BY <1>4, <2>1 DEF Launch
<1>5. CASE CopyNothing
  BY <1>5 DEF CopyNothing, ToolCopied, ToolFailed, Typed
<1>6. CASE Quit
  BY <1>6 DEF Quit
<1> QED BY <1>1, <1>2, <1>3, <1>4, <1>5, <1>6 DEF User

\* The steps of a lease's thread, and of the clipboard tool it starts
LEMMA ThreadStep ==
  ASSUME IInv, NEW i \in Lease, Thread(i) \/ ClearClipboard(i)
  PROVE  IInv'
<1> USE DEF IInv, TypeOK, ThreadsFollow, ActiveOK, Lease, Text, Content, State, table, shared, At, Goto, Conclude
<1>1. CASE LoopTest(i)
  BY <1>1 DEF LoopTest
<1>2. CASE CheckCurrent(i)
  BY <1>2 DEF CheckCurrent
<1>3. CASE ReadText(i)
  <2>1. TypeOK' BY <1>3 DEF ReadText
  <2>2. ThreadsFollow' BY <1>3 DEF ReadText
  <2>3. ActiveOK' BY <1>3 DEF ReadText
  <2> QED BY <2>1, <2>2, <2>3
<1>4. CASE ReadClipboard(i)
  <2>1. TypeOK' BY <1>4 DEF ReadClipboard
  <2>2. ThreadsFollow' BY <1>4 DEF ReadClipboard
  <2>3. ActiveOK' BY <1>4 DEF ReadClipboard
  <2> QED BY <2>1, <2>2, <2>3
<1>5. CASE Report(i)
  BY <1>5 DEF Report
<1>6. CASE Release(i)
  <2>1. TypeOK' BY <1>6 DEF Release
  <2>2. ThreadsFollow' BY <1>6 DEF Release
  <2>3. ActiveOK' BY <1>6 DEF Release
  <2> QED BY <2>1, <2>2, <2>3
<1>7. CASE ClearClipboard(i)
  <2>1. TypeOK' BY <1>7 DEF ClearClipboard, Typed
  <2>2. ThreadsFollow' BY <1>7 DEF ClearClipboard
  <2>3. ActiveOK' BY <1>7 DEF ClearClipboard
  <2> QED BY <2>1, <2>2, <2>3
<1> QED BY <1>1, <1>2, <1>3, <1>4, <1>5, <1>6, <1>7 DEF Thread

LEMMA NextIInv == IInv /\ [Next]_vars => IInv'
<1> SUFFICES ASSUME IInv, [Next]_vars PROVE IInv' OBVIOUS
<1>1. ASSUME NEW i \in Lease, Expire(i) PROVE IInv'
  <2>1. TypeOK' BY <1>1 DEF Expire, IInv, TypeOK, table, thread
  <2>2. (ThreadsFollow /\ ActiveOK)'
    BY <1>1 DEF Expire, IInv, ThreadsFollow, ActiveOK, thread
  <2> QED BY <2>1, <2>2 DEF IInv
<1>2. CASE OtherCopies
  BY <1>2 DEF OtherCopies, IInv, TypeOK, ThreadsFollow, ActiveOK, Lease, Content, State, table, thread
<1>3. CASE UNCHANGED vars
  BY <1>3 DEF IInv, TypeOK, ThreadsFollow, ActiveOK, Lease, State, vars, table, thread
<1> QED BY UserStep, ThreadStep, <1>1, <1>2, <1>3 DEF Next

\* Every behaviour keeps its types, for any texts and any number of copies.
THEOREM ClipboardTypeCorrect == Spec => []TypeOK
<1>1. IInv => TypeOK BY DEF IInv
<1> QED BY InitIInv, NextIInv, <1>1, PTL DEF Spec

\* An older lease that ends late never releases the newest one.
THEOREM NewestIsActive == Spec => []NewestStaysActive
<1>1. IInv => NewestStaysActive
  BY DEF IInv, ActiveOK, NewestStaysActive, TypeOK, Lease
<1> QED BY InitIInv, NextIInv, <1>1, PTL DEF Spec
=============================================================================
