------------------------ MODULE WindowsClipboardProofs ------------------------
(***************************************************************************)
(* The lease of a copied secret under WSL, for any texts, copies and runs   *)
(* of syncpss: types, and that the file of a lease outlives the item of the *)
(* clipboard history it names.                                             *)
(***************************************************************************)
EXTENDS WindowsClipboard, FiniteSetTheorems, TLAPS

\* A helper belongs to a run of syncpss that has begun and, in this run, to a
\* lease that has been announced; the newest lease gets its helpers when its copy
\* is over, and a helper that cancels is waited for.
HelpersFollow ==
  \A l \in Life, i \in Lease, m \in Mode :
    Running(l, i, m) =>
      /\ l <= life
      /\ l = life =>
           /\ i <= generation
           /\ m = "cancel" => phase = "cancel"
           /\ phase \notin {"schedule", "idle", "exited"} => i # generation

\* Every lease of this run has a text, and only older ones are cancelled.
Counted ==
  /\ \A i \in 1..generation : copied[life][i] # Empty
  /\ \A i \in stale : i < generation
  /\ phase \notin {"idle", "exited"} => generation > 0

\* A helper of this run that has read the record knows whose item the file names,
\* and by the time it removes the file that item is gone.
Recorded ==
  \A i \in Lease, m \in Mode :
    /\ at[life][i][m] \in {"wipe", "item"} => file[i] \in {0, noted[life][i][m]}
    /\ at[life][i][m] = "file" /\ file[i] # 0 => <<file[i], i>> \notin ToSet(history)

IInv ==
  /\ TypeOK
  /\ HelpersFollow
  /\ Counted
  /\ Recorded
  /\ IsInjective(history)

\* Removing the first occurrence from a sequence without repetitions removes the
\* element and keeps the rest as it is.
LEMMA FirstRemoved ==
  ASSUME NEW S, NEW s \in Seq(S), IsInjective(s), NEW e
  PROVE  /\ RemoveFirst(s, e) \in Seq(S)
         /\ IsInjective(RemoveFirst(s, e))
         /\ ToSet(RemoveFirst(s, e)) = ToSet(s) \ {e}
<1> DEFINE r == RemoveFirst(s, e)
<1>1. CASE ~ \E i \in 1..Len(s) : s[i] = e
  <2>1. r = s
    BY <1>1 DEF RemoveFirst
  <2> QED
    BY <1>1, <2>1 DEF ToSet
<1>2. ASSUME NEW k \in 1..Len(s), s[k] = e
      PROVE  /\ r \in Seq(S)
             /\ IsInjective(r)
             /\ ToSet(r) = ToSet(s) \ {e}
  <2>1. {i \in 1..Len(s) : s[i] = e} = {k}
    BY <1>2 DEF IsInjective
  <2>2. Min({i \in 1..Len(s) : s[i] = e}) = k
    BY <1>2, <2>1 DEF Min
  <2>3. r = SubSeq(s, 1, k - 1) \o SubSeq(s, k + 1, Len(s))
    BY <1>2, <2>1, <2>2 DEF RemoveFirst, RemoveAt, SelectInSeq
  <2> DEFINE before == SubSeq(s, 1, k - 1)
             after  == SubSeq(s, k + 1, Len(s))
  <2>4. /\ before \in Seq(S) /\ Len(before) = k - 1
        /\ \A i \in 1..(k - 1) : before[i] = s[i]
    BY <1>2
  <2>5. /\ after \in Seq(S) /\ Len(after) = Len(s) - k
        /\ \A i \in 1..(Len(s) - k) : after[i] = s[i + k]
    BY <1>2
  <2> HIDE DEF before, after, r
  <2>6. r \in Seq(S) /\ Len(r) = Len(s) - 1
    <3>1. r = before \o after
      BY <2>3 DEF before, after
    <3> QED
      BY <1>2, <2>4, <2>5, <3>1
  <2>7. \A i \in 1..Len(r) : r[i] = IF i < k THEN s[i] ELSE s[i + 1]
    <3>1. r = before \o after
      BY <2>3 DEF before, after
    <3>2. ASSUME NEW i \in 1..Len(r), i < k PROVE r[i] = s[i]
      BY <1>2, <2>4, <2>5, <2>6, <3>1, <3>2
    <3>3. ASSUME NEW i \in 1..Len(r), ~(i < k) PROVE r[i] = s[i + 1]
      <4>1. r[i] = after[i - (k - 1)] /\ i - (k - 1) \in 1..(Len(s) - k)
        BY <1>2, <2>4, <2>5, <2>6, <3>1, <3>3
      <4> QED
        BY <1>2, <2>5, <2>6, <3>3, <4>1
    <3> QED
      BY <3>2, <3>3
  <2>8. IsInjective(r)
    <3>1. ASSUME NEW i \in 1..Len(r), NEW j \in 1..Len(r), r[i] = r[j] PROVE i = j
      <4> DEFINE at_(n) == IF n < k THEN n ELSE n + 1
      <4>1. at_(i) \in 1..Len(s) /\ at_(j) \in 1..Len(s) /\ s[at_(i)] = s[at_(j)]
        BY <1>2, <2>6, <2>7, <3>1
      <4>2. at_(i) = at_(j)
        BY <4>1 DEF IsInjective
      <4> QED
        BY <1>2, <2>6, <3>1, <4>2
    <3> QED
      BY <2>6, <3>1 DEF IsInjective
  <2>9. ToSet(r) \subseteq ToSet(s) \ {e}
    BY <1>2, <2>6, <2>7 DEF ToSet, IsInjective
  <2>10. ASSUME NEW x \in ToSet(s) \ {e} PROVE x \in ToSet(r)
    <3>1. PICK i \in 1..Len(s) : s[i] = x
      BY DEF ToSet
    <3>2. i # k
      BY <1>2, <3>1
    <3>3. CASE i < k
      BY <1>2, <2>6, <2>7, <3>1, <3>3 DEF ToSet
    <3>4. CASE i > k
      <4>1. i - 1 \in 1..Len(r) /\ r[i - 1] = x
        BY <1>2, <2>6, <2>7, <3>1, <3>4
      <4> QED
        BY <2>6, <4>1 DEF ToSet
    <3> QED
      BY <1>2, <3>2, <3>3, <3>4
  <2> QED
    BY <2>6, <2>8, <2>9, <2>10
<1> QED
  BY <1>1, <1>2

USE WindowsClipboardAssumption

\* What injects into a finite set has no more elements.
LEMMA NoMore ==
  ASSUME NEW S, NEW T, IsFiniteSet(S), IsFiniteSet(T),
         NEW f \in [S -> T], \A x, y \in S : f[x] = f[y] => x = y
  PROVE  ~(Cardinality(T) < Cardinality(S))
<1> SUFFICES ASSUME Cardinality(T) < Cardinality(S) PROVE FALSE
  OBVIOUS
<1>1. \E x, y \in S : x # y /\ f[x] = f[y]
  BY FS_PigeonHole
<1> QED
  BY <1>1

\* Every copy of this run has taken a place: another one fits.
LEMMA RoomForOne ==
  ASSUME TypeOK, Counted, Cardinality(Copies) < MaxLeases
  PROVE  generation + 1 \in Lease
<1> DEFINE place == [i \in 1..generation |-> <<life, i>>]
<1>1. generation \in 0..MaxLeases /\ life \in Life
  BY DEF TypeOK
<1>2. IsFiniteSet(Life) /\ IsFiniteSet(Lease)
  BY FS_Interval DEF Life, Lease
<1>3. IsFiniteSet(Copies) /\ Cardinality(Copies) \in Nat
  BY <1>2, FS_Product, FS_Subset, FS_CardinalityType DEF Copies
<1>4. IsFiniteSet(1..generation) /\ Cardinality(1..generation) = generation
  BY <1>1, FS_Interval
<1>5. place \in [1..generation -> Copies]
  BY <1>1 DEF Counted, Lease, Copies
<1>6. \A i, j \in 1..generation : place[i] = place[j] => i = j
  OBVIOUS
<1> HIDE DEF place
<1>7. ~(Cardinality(Copies) < Cardinality(1..generation))
  BY <1>3, <1>4, <1>5, <1>6, NoMore
<1> QED
  BY <1>1, <1>3, <1>4, <1>7 DEF Lease

\* Shown puts one item first and keeps the others.
LEMMA ItemShown ==
  ASSUME history \in Seq(Item), IsInjective(history),
         NEW c, NEW item \in Item, Shown(c, item)
  PROVE  /\ clipboard' = c
         /\ history' \in Seq(Item)
         /\ IsInjective(history)'
         /\ ToSet(history') \subseteq ToSet(history) \union {item}
<1> DEFINE rest == RemoveFirst(history, item)
<1>1. /\ rest \in Seq(Item) /\ IsInjective(rest)
      /\ ToSet(rest) = ToSet(history) \ {item}
  BY FirstRemoved
<1>2. clipboard' = c /\ history' = <<item>> \o rest
  BY DEF Shown, Without
<1> HIDE DEF rest
<1>3. /\ history' \in Seq(Item) /\ Len(history') = Len(rest) + 1
      /\ history'[1] = item
      /\ \A i \in 2..Len(history') : history'[i] = rest[i - 1]
  BY <1>1, <1>2
<1>4. \A i \in 1..Len(rest) : rest[i] # item /\ rest[i] \in ToSet(history)
  BY <1>1 DEF ToSet
<1>5. IsInjective(history')
  <2>1. ASSUME NEW i \in 1..Len(history'), NEW j \in 1..Len(history'), history'[i] = history'[j]
        PROVE  i = j
    <3>1. \A n \in 1..Len(history') : n # 1 => history'[n] # item
      <4>1. ASSUME NEW n \in 1..Len(history'), n # 1 PROVE history'[n] # item
        <5>1. n - 1 \in 1..Len(rest) /\ history'[n] = rest[n - 1]
          BY <1>1, <1>3, <4>1
        <5> QED
          BY <1>4, <5>1
      <4> QED
        BY <4>1
    <3>2. CASE i # 1 /\ j # 1
      <4>1. i - 1 \in 1..Len(rest) /\ j - 1 \in 1..Len(rest) /\ rest[i - 1] = rest[j - 1]
        BY <1>1, <1>3, <2>1, <3>2
      <4>2. i - 1 = j - 1
        BY <1>1, <4>1 DEF IsInjective
      <4> QED
        BY <2>1, <4>2
    <3> QED
      BY <1>3, <2>1, <3>1, <3>2
  <2> QED
    BY <1>3, <2>1 DEF IsInjective
<1>6. ToSet(history') \subseteq ToSet(history) \union {item}
  <2>1. ASSUME NEW n \in 1..Len(history') PROVE history'[n] \in ToSet(history) \union {item}
    <3>1. CASE n = 1
      BY <1>3, <3>1
    <3>2. CASE n # 1
      <4>1. n - 1 \in 1..Len(rest) /\ history'[n] = rest[n - 1]
        BY <1>1, <1>3, <3>2
      <4> QED
        BY <1>4, <4>1
    <3> QED
      BY <3>1, <3>2
  <2> QED
    BY <1>3, <2>1 DEF ToSet
<1>7. IsInjective(history)'
  BY <1>5 DEF IsInjective
<1> QED
  BY <1>2, <1>3, <1>6, <1>7

LEMMA InitIInv == Init => IInv
<1> SUFFICES ASSUME Init PROVE IInv
  OBVIOUS
<1> USE DEF Init
<1>1. TypeOK
  <2>1. at \in OfHelper(Place)
    BY DEF All, OfHelper, Mode, Place
  <2>2. wipes \in OfHelper(BOOLEAN) /\ noted \in OfHelper(0..life)
    BY DEF All, OfHelper, Mode
  <2>3. life \in Life /\ generation \in 0..MaxLeases /\ stale \in SUBSET Lease
    BY DEF Life
  <2>4. history \in Seq(Item)
    OBVIOUS
  <2>5. file \in [Lease -> 0..life]
    OBVIOUS
  <2>6. copied \in [Life -> [Lease -> Secret \union {Empty}]]
    OBVIOUS
  <2>7. refusals \in 0..MaxRefusals
    OBVIOUS
  <2>8. misread \in BOOLEAN
    OBVIOUS
  <2> QED
    BY <2>1, <2>2, <2>3, <2>4, <2>5, <2>6, <2>7, <2>8 DEF TypeOK
<1>2. \A l \in Life, i \in Lease, m \in Mode : at[l][i][m] = "none"
  BY DEF All
<1>3. HelpersFollow /\ Recorded
  BY <1>1, <1>2 DEF HelpersFollow, Running, Recorded, TypeOK
<1>4. Counted /\ IsInjective(history)
  BY DEF Counted, IsInjective
<1> QED
  BY <1>1, <1>3, <1>4 DEF IInv

\* A helper that moves leaves the others where they are.
LEMMA Moves ==
  ASSUME TypeOK, NEW p \in Process,
         NEW where \in Place, Goto(p, where)
  PROVE  /\ at' \in OfHelper(Place)
         /\ \A l \in Life, i \in Lease, m \in Mode :
              at'[l][i][m] =
                IF l = p[1] /\ i = p[2] /\ m = p[3] THEN where ELSE at[l][i][m]
<1>1. at \in OfHelper(Place)
  BY DEF TypeOK
<1>2. at' = [at EXCEPT ![p[1]][p[2]][p[3]] = where]
  BY DEF Goto
<1>3. p[1] \in Life /\ p[2] \in Lease /\ p[3] \in Mode
  BY DEF Process
<1> QED
  BY <1>1, <1>2, <1>3 DEF OfHelper

\* What Windows refuses is counted.
LEMMA Counts ==
  ASSUME refusals \in 0..MaxRefusals, Granted \/ Denied
  PROVE  refusals' \in 0..MaxRefusals
BY DEF Granted, Denied

\* While syncpss rests, no helper appears.
LEMMA FollowKept ==
  ASSUME HelpersFollow, Counted, UNCHANGED syncpss,
         \A l \in Life, i \in Lease, m \in Mode :
           Running(l, i, m)' => Running(l, i, m)
  PROVE  HelpersFollow' /\ Counted'
<1>1. UNCHANGED <<copied, life, generation, stale, phase>>
  BY DEF syncpss
<1>2. HelpersFollow'
  BY <1>1 DEF HelpersFollow, Running
<1>3. Counted'
  BY <1>1 DEF Counted
<1> QED
  BY <1>2, <1>3

\* A helper ends or goes on to read the record; nothing of Windows changes.
LEMMA WakeStep ==
  ASSUME IInv, NEW p \in Process, WatchLease(p) \/ Wake(p)
  PROVE  IInv'
<1>1. TypeOK /\ HelpersFollow /\ Counted /\ Recorded /\ IsInjective(history)
  BY DEF IInv
<1>2. /\ UNCHANGED windows /\ UNCHANGED syncpss /\ UNCHANGED noted
      /\ UNCHANGED refused \/ (\E result \in BOOLEAN : TestLeaseMatch(p[2], result)
                                                     /\ Tested(p, result))
  BY DEF WatchLease, Wake
<1>3. UNCHANGED <<clipboard, history, file, copied, life, generation, stale, phase, noted>>
  BY <1>2 DEF windows, syncpss
<1>4. at[p[1]][p[2]][p[3]] = "waiting"
  BY DEF WatchLease, Wake, Of
<1>5. PICK where \in {"none", "read"} : Goto(p, where) /\ where \in Place
  BY DEF WatchLease, Wake, Drop, Place
<1>11. refusals' \in 0..MaxRefusals /\ misread' \in BOOLEAN
  <2>1. refusals \in 0..MaxRefusals /\ misread \in BOOLEAN
    BY <1>1 DEF TypeOK
  <2>2. CASE UNCHANGED refused
    BY <2>1, <2>2 DEF refused
  <2>3. ASSUME NEW result \in BOOLEAN, TestLeaseMatch(p[2], result), Tested(p, result)
        PROVE  refusals' \in 0..MaxRefusals /\ misread' \in BOOLEAN
    <3>1. Granted \/ Denied
      BY <2>3 DEF TestLeaseMatch
    <3>2. refusals' \in 0..MaxRefusals
      BY <2>1, <3>1, Counts
    <3>3. misread' \in BOOLEAN
      BY <2>3, Zenon DEF Tested
    <3> QED
      BY <3>2, <3>3
  <2> QED
    BY <1>2, <2>2, <2>3
<1>6. /\ at' \in OfHelper(Place)
      /\ \A l \in Life, i \in Lease, m \in Mode :
           at'[l][i][m] =
             IF l = p[1] /\ i = p[2] /\ m = p[3] THEN where ELSE at[l][i][m]
  BY <1>1, <1>5, Moves
<1>7. wipes' \in OfHelper(BOOLEAN)
  <2>1. p[1] \in Life /\ p[2] \in Lease /\ p[3] \in Mode
    BY DEF Process
  <2>2. wipes \in OfHelper(BOOLEAN)
    BY <1>1 DEF TypeOK
  <2>4. PICK v \in BOOLEAN : wipes' = wipes \/ wipes' = [wipes EXCEPT ![p[1]][p[2]][p[3]] = v]
    BY DEF WatchLease, Wake, Drop
  <2>5. [wipes EXCEPT ![p[1]][p[2]][p[3]] = v] \in OfHelper(BOOLEAN)
    BY <2>1, <2>2 DEF OfHelper
  <2> QED
    BY <2>2, <2>4, <2>5
<1>8. HelpersFollow' /\ Counted'
  BY <1>1, <1>2, <1>4, <1>6, FollowKept DEF Running
<1>9. Recorded'
  <2>1. life \in Life
    BY <1>1 DEF TypeOK
  <2>2. \A i \in Lease, m \in Mode :
          at'[life][i][m] \in {"wipe", "item", "file"} => at'[life][i][m] = at[life][i][m]
    BY <1>5, <1>6, <2>1
  <2> QED
    BY <1>1, <1>3, <2>2 DEF Recorded
<1>10. TypeOK'
  BY <1>1, <1>3, <1>6, <1>7, <1>11 DEF TypeOK
<1> QED
  BY <1>1, <1>3, <1>8, <1>9, <1>10 DEF IInv

\* A helper notes which run's item the file names.
LEMMA ReadStep ==
  ASSUME IInv, NEW p \in Process, ReadRecord(p)
  PROVE  IInv'
<1>1. TypeOK /\ HelpersFollow /\ Counted /\ Recorded /\ IsInjective(history)
  BY DEF IInv
<1>2. /\ UNCHANGED windows /\ UNCHANGED syncpss /\ UNCHANGED refused
      /\ at[p[1]][p[2]][p[3]] = "read"
  BY DEF ReadRecord, Of
<1>3. UNCHANGED <<clipboard, history, file, copied, life, generation, stale, phase,
                  refusals, misread>>
  BY <1>2 DEF windows, syncpss, refused
<1>4. p[1] \in Life /\ p[2] \in Lease /\ p[3] \in Mode
  BY DEF Process
<1>5. PICK where \in {"wipe", "item"} : Goto(p, where) /\ where \in Place
  BY DEF ReadRecord, Place
<1>6. /\ at' \in OfHelper(Place)
      /\ \A l \in Life, i \in Lease, m \in Mode :
           at'[l][i][m] =
             IF l = p[1] /\ i = p[2] /\ m = p[3] THEN where ELSE at[l][i][m]
  BY <1>1, <1>5, Moves
<1>7. wipes' \in OfHelper(BOOLEAN)
  <2>1. wipes \in OfHelper(BOOLEAN) /\ wipes' = [wipes EXCEPT ![p[1]][p[2]][p[3]] = FALSE]
    BY <1>1 DEF TypeOK, ReadRecord
  <2> QED
    BY <1>4, <2>1 DEF OfHelper
<1>8. /\ noted' \in OfHelper(0..life)
      /\ \A l \in Life, i \in Lease, m \in Mode :
           noted'[l][i][m] =
             IF l = p[1] /\ i = p[2] /\ m = p[3] THEN file[p[2]] ELSE noted[l][i][m]
  <2>1. noted \in OfHelper(0..life) /\ file[p[2]] \in 0..life
    BY <1>1, <1>4 DEF TypeOK
  <2>2. noted' = [noted EXCEPT ![p[1]][p[2]][p[3]] = file[p[2]]]
    BY DEF ReadRecord
  <2> QED
    BY <1>4, <2>1, <2>2 DEF OfHelper
<1>9. HelpersFollow' /\ Counted'
  BY <1>1, <1>2, <1>6, FollowKept DEF Running
<1>10. Recorded'
  <2> SUFFICES ASSUME NEW i \in Lease, NEW m \in Mode
               PROVE  /\ at'[life][i][m] \in {"wipe", "item"} => file[i] \in {0, noted'[life][i][m]}
                      /\ at'[life][i][m] = "file" /\ file[i] # 0
                           => <<file[i], i>> \notin ToSet(history)
    BY <1>3 DEF Recorded
  <2>1. life \in Life
    BY <1>1 DEF TypeOK
  <2>2. CASE life = p[1] /\ i = p[2] /\ m = p[3]
    BY <1>5, <1>6, <1>8, <2>1, <2>2
  <2>3. CASE ~(life = p[1] /\ i = p[2] /\ m = p[3])
    BY <1>1, <1>6, <1>8, <2>1, <2>3 DEF Recorded
  <2> QED
    BY <2>2, <2>3
<1>11. TypeOK'
  BY <1>1, <1>3, <1>6, <1>7, <1>8 DEF TypeOK
<1> QED
  BY <1>1, <1>3, <1>9, <1>10, <1>11 DEF IInv

\* The clipboard is cleared, whatever is on it, or the script ends.
LEMMA WipeStep ==
  ASSUME IInv, NEW p \in Process, ClearCurrentValue(p)
  PROVE  IInv'
<1>1. TypeOK /\ HelpersFollow /\ Counted /\ Recorded /\ IsInjective(history)
  BY DEF IInv
<1>2. /\ UNCHANGED <<history, file, wipes, noted, misread>> /\ UNCHANGED syncpss
      /\ clipboard' \in {clipboard, Empty} /\ at[p[1]][p[2]][p[3]] = "wipe"
      /\ Granted \/ Denied
  BY DEF ClearCurrentValue, Of
<1>3. UNCHANGED <<history, file, copied, life, generation, stale, phase, wipes, noted,
                  misread>>
  BY <1>2 DEF syncpss
<1>8. PICK where \in {"item", "thrown"} : Goto(p, where) /\ where \in Place
  BY DEF ClearCurrentValue, Place
<1>4. /\ at' \in OfHelper(Place)
      /\ \A l \in Life, i \in Lease, m \in Mode :
           at'[l][i][m] =
             IF l = p[1] /\ i = p[2] /\ m = p[3] THEN where ELSE at[l][i][m]
  BY <1>1, <1>8, Moves
<1>5. HelpersFollow' /\ Counted'
  BY <1>1, <1>2, <1>4, FollowKept DEF Running
<1>6. Recorded'
  <2> SUFFICES ASSUME NEW i \in Lease, NEW m \in Mode
               PROVE  /\ at'[life][i][m] \in {"wipe", "item"} => file[i] \in {0, noted[life][i][m]}
                      /\ at'[life][i][m] = "file" /\ file[i] # 0
                           => <<file[i], i>> \notin ToSet(history)
    BY <1>3 DEF Recorded
  <2>1. \/ at'[life][i][m] = at[life][i][m]
        \/ at[life][i][m] = "wipe" /\ at'[life][i][m] \in {"item", "thrown"}
    BY <1>1, <1>2, <1>4 DEF TypeOK
  <2>2. /\ at[life][i][m] \in {"wipe", "item"} => file[i] \in {0, noted[life][i][m]}
        /\ at[life][i][m] = "file" /\ file[i] # 0 => <<file[i], i>> \notin ToSet(history)
    BY <1>1 DEF Recorded
  <2> QED
    BY <2>1, <2>2
<1>7. TypeOK'
  <2>1. refusals' \in 0..MaxRefusals
    BY <1>1, <1>2, Counts DEF TypeOK
  <2> QED
    BY <1>1, <1>2, <1>3, <1>4, <2>1 DEF TypeOK
<1> QED
  BY <1>1, <1>3, <1>5, <1>6, <1>7 DEF IInv

\* The item a helper has noted goes, or none does, and none comes.
LEMMA ItemStep ==
  ASSUME IInv, NEW p \in Process, RemoveHistoryItem(p)
  PROVE  IInv'
<1>1. TypeOK /\ HelpersFollow /\ Counted /\ Recorded /\ IsInjective(history)
  BY DEF IInv
<1>2. /\ UNCHANGED <<clipboard, file, wipes, misread>> /\ UNCHANGED syncpss
      /\ at[p[1]][p[2]][p[3]] = "item" /\ (Granted \/ Denied)
  BY DEF RemoveHistoryItem, Of
<1>3. UNCHANGED <<clipboard, file, copied, life, generation, stale, phase, wipes, misread>>
  BY <1>2 DEF syncpss
<1>4. p[1] \in Life /\ p[2] \in Lease /\ p[3] \in Mode
  BY DEF Process
<1>12. PICK where \in {"file", "left"} :
         /\ Goto(p, where) /\ where \in Place
         /\ history' = IF where = "file"
                         THEN RemoveFirst(history, <<noted[p[1]][p[2]][p[3]], p[2]>>)
                         ELSE history
  BY DEF RemoveHistoryItem, Place, Of, Without
<1>5. /\ history' \in Seq(Item) /\ IsInjective(history')
      /\ ToSet(history') \subseteq ToSet(history)
      /\ where = "file" => <<noted[p[1]][p[2]][p[3]], p[2]>> \notin ToSet(history')
  BY <1>1, <1>12, FirstRemoved DEF TypeOK
<1>6. /\ at' \in OfHelper(Place)
      /\ \A l \in Life, i \in Lease, m \in Mode :
           at'[l][i][m] =
             IF l = p[1] /\ i = p[2] /\ m = p[3] THEN where ELSE at[l][i][m]
  BY <1>1, <1>12, Moves
<1>7. /\ noted' \in OfHelper(0..life)
      /\ \A l \in Life, i \in Lease, m \in Mode :
           noted'[l][i][m] =
             IF l = p[1] /\ i = p[2] /\ m = p[3] THEN 0 ELSE noted[l][i][m]
  <2>1. noted \in OfHelper(0..life) /\ 0 \in 0..life
    BY <1>1 DEF TypeOK, Life
  <2>2. noted' = [noted EXCEPT ![p[1]][p[2]][p[3]] = 0]
    BY DEF RemoveHistoryItem
  <2> QED
    BY <1>4, <2>1, <2>2 DEF OfHelper
<1>8. HelpersFollow' /\ Counted'
  BY <1>1, <1>2, <1>6, FollowKept DEF Running
<1>9. Recorded'
  <2> SUFFICES ASSUME NEW i \in Lease, NEW m \in Mode
               PROVE  /\ at'[life][i][m] \in {"wipe", "item"} => file[i] \in {0, noted'[life][i][m]}
                      /\ at'[life][i][m] = "file" /\ file[i] # 0
                           => <<file[i], i>> \notin ToSet(history')
    BY <1>3 DEF Recorded
  <2>1. life \in Life
    BY <1>1 DEF TypeOK
  <2>2. CASE life = p[1] /\ i = p[2] /\ m = p[3]
    <3>1. file[i] \in {0, noted[life][i][m]}
      BY <1>1, <1>2, <2>2 DEF Recorded
    <3> QED
      BY <1>5, <1>6, <2>1, <2>2, <3>1
  <2>3. CASE ~(life = p[1] /\ i = p[2] /\ m = p[3])
    BY <1>1, <1>5, <1>6, <1>7, <2>1, <2>3 DEF Recorded
  <2> QED
    BY <2>2, <2>3
<1>10. TypeOK'
  <2>1. refusals' \in 0..MaxRefusals
    BY <1>1, <1>2, Counts DEF TypeOK
  <2> QED
    BY <1>1, <1>3, <1>5, <1>6, <1>7, <2>1 DEF TypeOK
<1>11. IsInjective(history)'
  BY <1>5 DEF IsInjective
<1> QED
  BY <1>8, <1>9, <1>10, <1>11 DEF IInv

\* The file goes, or cannot be removed.
LEMMA FileStep ==
  ASSUME IInv, NEW p \in Process, RemoveLease(p)
  PROVE  IInv'
<1>1. TypeOK /\ HelpersFollow /\ Counted /\ Recorded /\ IsInjective(history)
  BY DEF IInv
<1>2. /\ UNCHANGED <<clipboard, history, wipes, noted, misread>> /\ UNCHANGED syncpss
      /\ at[p[1]][p[2]][p[3]] \in {"file", "left"}
      /\ file' = file \/ file' = [file EXCEPT ![p[2]] = 0]
      /\ Granted \/ Denied
  BY DEF RemoveLease, Of
<1>3. UNCHANGED <<clipboard, history, copied, life, generation, stale, phase, wipes, noted,
                  misread>>
  BY <1>2 DEF syncpss
<1>4. /\ file' \in [Lease -> 0..life]
      /\ \A i \in Lease : file'[i] \in {0, file[i]}
  <2>1. file \in [Lease -> 0..life] /\ life \in Nat /\ p[2] \in Lease
    BY <1>1 DEF TypeOK, Life, Process
  <2> QED
    BY <1>2, <2>1
<1>5. /\ at' \in OfHelper(Place)
      /\ \A l \in Life, i \in Lease, m \in Mode :
           at'[l][i][m] =
             IF l = p[1] /\ i = p[2] /\ m = p[3] THEN "none" ELSE at[l][i][m]
  BY <1>1, Moves DEF RemoveLease, Place
<1>6. HelpersFollow' /\ Counted'
  BY <1>1, <1>2, <1>5, FollowKept DEF Running
<1>7. Recorded'
  <2> SUFFICES ASSUME NEW i \in Lease, NEW m \in Mode
               PROVE  /\ at'[life][i][m] \in {"wipe", "item"} => file'[i] \in {0, noted[life][i][m]}
                      /\ at'[life][i][m] = "file" /\ file'[i] # 0
                           => <<file'[i], i>> \notin ToSet(history)
    BY <1>3 DEF Recorded
  <2>1. at'[life][i][m] \in {"none", at[life][i][m]} /\ file'[i] \in {0, file[i]}
    BY <1>1, <1>4, <1>5 DEF TypeOK
  <2>2. /\ at[life][i][m] \in {"wipe", "item"} => file[i] \in {0, noted[life][i][m]}
        /\ at[life][i][m] = "file" /\ file[i] # 0 => <<file[i], i>> \notin ToSet(history)
    BY <1>1 DEF Recorded
  <2> QED
    BY <2>1, <2>2
<1>8. TypeOK'
  <2>1. refusals' \in 0..MaxRefusals
    BY <1>1, <1>2, Counts DEF TypeOK
  <2> QED
    BY <1>1, <1>3, <1>4, <1>5, <2>1 DEF TypeOK
<1> QED
  BY <1>1, <1>3, <1>6, <1>7, <1>8 DEF IInv

\* The step of syncpss, or of another program, that shows an item: no helper
\* is about to remove the file of that item.
LEMMA ShownStep ==
  ASSUME IInv, NEW c \in Secret \union Other \union {Empty}, NEW item \in Item,
         Shown(c, item), UNCHANGED <<file, copied, life, generation, stale>>,
         UNCHANGED <<at, wipes, noted, refusals, misread>>, HelpersFollow', Counted',
         phase' \in {"idle", "cancel", "record", "match", "again", "register",
                     "watch", "schedule", "exited"},
         \A i \in Lease, m \in Mode :
           at[life][i][m] = "file" /\ file[i] # 0 => item # <<file[i], i>>
  PROVE  IInv'
<1>1. TypeOK /\ Recorded /\ IsInjective(history)
  BY DEF IInv
<1>2. /\ clipboard' = c
      /\ history' \in Seq(Item)
      /\ IsInjective(history)'
      /\ ToSet(history') \subseteq ToSet(history) \union {item}
  BY <1>1, ItemShown DEF TypeOK
<1>3. Recorded'
  BY <1>1, <1>2 DEF Recorded
<1>4. TypeOK'
  BY <1>1, <1>2 DEF TypeOK
<1> QED
  BY <1>2, <1>3, <1>4 DEF IInv

\* The text of the newest lease is shown, if at all.
LEMMA CopyStep ==
  ASSUME IInv, SetClipboard \/ CopyAgain
  PROVE  IInv'
<1>1. TypeOK /\ HelpersFollow /\ Counted /\ Recorded /\ IsInjective(history)
  BY DEF IInv
<1>2. /\ UNCHANGED <<file, copied, life, generation, stale>>
      /\ UNCHANGED <<at, wipes, noted, refusals, misread>>
      /\ phase \in {"cancel", "again"}
      /\ phase' \in {"record", "again", "register", "idle"}
      /\ phase = "cancel" => ~Cancelling
  BY DEF SetClipboard, CopyAgain, helpers, refused
<1>3. HelpersFollow'
  BY <1>1, <1>2 DEF HelpersFollow, Running, Cancelling
<1>4. Counted'
  BY <1>1, <1>2 DEF Counted
<1>5. CASE UNCHANGED <<clipboard, history>>
  <2>1. Recorded'
    BY <1>1, <1>2, <1>5 DEF Recorded
  <2>2. TypeOK'
    BY <1>1, <1>2, <1>5 DEF TypeOK
  <2> QED
    BY <1>1, <1>3, <1>4, <1>5, <2>1, <2>2 DEF IInv
<1>6. CASE Shown(copied[life][generation], Newest)
  <2>1. generation \in Lease /\ life \in Life
    BY <1>1, <1>2 DEF TypeOK, Counted, Lease
  <2>2. copied[life][generation] \in Secret \union Other \union {Empty}
    BY <1>1, <2>1 DEF TypeOK
  <2>3. Newest \in Item
    BY <2>1 DEF Newest, Item
  <2>4. \A i \in Lease, m \in Mode :
          at[life][i][m] = "file" /\ file[i] # 0 => Newest # <<file[i], i>>
    BY <1>1, <1>2, <2>1 DEF HelpersFollow, Running, Newest
  <2> QED
    BY <1>2, <1>3, <1>4, <1>6, <2>2, <2>3, <2>4, ShownStep
<1> QED
  BY <1>2, <1>5, <1>6 DEF SetClipboard, CopyAgain

LEMMA OtherStep ==
  ASSUME IInv, NEW c \in Other, OtherCopies(c)
  PROVE  IInv'
<1>1. TypeOK /\ HelpersFollow /\ Counted /\ Recorded /\ IsInjective(history)
  BY DEF IInv
<1>2. /\ UNCHANGED <<file, copied, life, generation, stale, phase>>
      /\ UNCHANGED <<at, wipes, noted, refusals, misread>>
  BY DEF OtherCopies, syncpss, helpers, refused
<1>3. HelpersFollow' /\ Counted'
  BY <1>1, <1>2 DEF HelpersFollow, Running, Counted
<1>4. CASE UNCHANGED history /\ clipboard' = c
  <2>1. Recorded'
    BY <1>1, <1>2, <1>4 DEF Recorded
  <2>2. TypeOK'
    BY <1>1, <1>2, <1>4 DEF TypeOK
  <2> QED
    BY <1>1, <1>3, <1>4, <2>1, <2>2 DEF IInv
<1>5. CASE Shown(c, c)
  <2>1. c \in Item /\ c \notin Life \X Lease
    BY DEF Item, Life, Lease
  <2>2. ASSUME NEW i \in Lease, file[i] # 0 PROVE c # <<file[i], i>>
    <3>1. file[i] \in Life
      BY <1>1, <2>2 DEF TypeOK, Life
    <3> QED
      BY <2>1, <2>2, <3>1
  <2>3. phase' \in {"idle", "cancel", "record", "match", "again", "register",
                    "watch", "schedule", "exited"}
    BY <1>1, <1>2 DEF TypeOK
  <2> QED
    BY <1>2, <1>3, <1>5, <2>1, <2>2, <2>3, ShownStep
<1> QED
  BY <1>4, <1>5 DEF OtherCopies

\* A copy is announced under the next number.
LEMMA AnnounceStep ==
  ASSUME IInv, NEW t \in Secret, Announce(t)
  PROVE  IInv'
<1>1. TypeOK /\ HelpersFollow /\ Counted /\ Recorded /\ IsInjective(history)
  BY DEF IInv
<1>2. /\ UNCHANGED <<clipboard, history, file>>
      /\ UNCHANGED <<life, at, wipes, noted, refusals>> /\ misread' = FALSE
      /\ generation' = generation + 1
      /\ copied' = [copied EXCEPT ![life][generation + 1] = t]
      /\ stale' = 1..generation /\ phase' = "cancel"
  BY DEF Announce, windows
<1>3. generation \in Nat /\ life \in Life /\ generation + 1 \in Lease
  <2>2. Cardinality(Copies) < MaxLeases
    BY DEF Announce
  <2>3. generation + 1 \in Lease
    BY <1>1, <2>2, RoomForOne
  <2> QED
    BY <1>1, <2>3 DEF TypeOK
<1>4. /\ copied' \in [Life -> [Lease -> Secret \union {Empty}]]
      /\ copied'[life][generation + 1] = t
      /\ \A i \in Lease : i # generation + 1 => copied'[life][i] = copied[life][i]
  <2>1. copied \in [Life -> [Lease -> Secret \union {Empty}]]
    BY <1>1 DEF TypeOK
  <2> QED
    BY <1>2, <1>3, <2>1
<1>5. Counted'
  <2>1. t # Empty
    OBVIOUS
  <2>2. ASSUME NEW i \in 1..(generation + 1) PROVE copied'[life][i] # Empty
    <3>1. CASE i = generation + 1
      BY <1>4, <2>1, <3>1
    <3>2. CASE i # generation + 1
      <4>1. i \in 1..generation /\ i \in Lease
        BY <1>3, <3>2 DEF Lease
      <4> QED
        BY <1>1, <1>4, <3>2, <4>1 DEF Counted
    <3> QED
      BY <3>1, <3>2
  <2> QED
    BY <1>2, <1>3, <2>2 DEF Counted
<1>6. HelpersFollow'
  BY <1>1, <1>2, <1>3 DEF HelpersFollow, Running, Lease
<1>7. Recorded'
  BY <1>1, <1>2 DEF Recorded
<1>8. TypeOK'
  <2>1. refusals' \in 0..MaxRefusals /\ misread' \in BOOLEAN
    BY <1>1, <1>2 DEF TypeOK
  <2> QED
    BY <1>1, <1>2, <1>3, <1>4, <2>1 DEF TypeOK, Lease
<1> QED
  BY <1>1, <1>2, <1>5, <1>6, <1>7, <1>8 DEF IInv

\* A helper that cancels an older lease is started, or is not.
LEMMA CancelStep ==
  ASSUME IInv, NEW j \in Lease, CancelStale(j)
  PROVE  IInv'
<1>1. TypeOK /\ HelpersFollow /\ Counted /\ Recorded /\ IsInjective(history)
  BY DEF IInv
<1>2. /\ UNCHANGED <<clipboard, history, file, copied, life, generation, phase, noted,
                     refusals, misread>>
      /\ phase = "cancel" /\ j \in stale /\ stale' = stale \ {j}
  BY DEF CancelStale, windows, refused
<1>3. j < generation /\ life \in Life
  BY <1>1, <1>2 DEF Counted, TypeOK
<1>4. Counted'
  BY <1>1, <1>2 DEF Counted
<1>5. CASE UNCHANGED <<at, wipes>>
  <2>1. HelpersFollow' /\ Recorded'
    BY <1>1, <1>2, <1>5 DEF HelpersFollow, Running, Recorded
  <2>2. TypeOK'
    BY <1>1, <1>2, <1>5 DEF TypeOK
  <2> QED
    BY <1>1, <1>2, <1>4, <2>1, <2>2 DEF IInv
<1>6. CASE Drop(<<life, j, "cancel">>)
  <2> DEFINE p == <<life, j, "cancel">>
  <2>1. p \in Process
    BY <1>3 DEF Process, Mode
  <2>2. /\ at' \in OfHelper(Place)
        /\ \A l \in Life, i \in Lease, m \in Mode :
             at'[l][i][m] =
               IF l = p[1] /\ i = p[2] /\ m = p[3] THEN "read" ELSE at[l][i][m]
    BY <1>1, <1>6, <2>1, Moves DEF Drop, Place
  <2>3. \A l \in Life, i \in Lease, m \in Mode :
          at'[l][i][m] =
            IF l = life /\ i = j /\ m = "cancel" THEN "read" ELSE at[l][i][m]
    BY <2>2
  <2>4. wipes' \in OfHelper(BOOLEAN)
    <3>1. wipes \in OfHelper(BOOLEAN) /\ "cancel" \in Mode
      BY <1>1 DEF TypeOK, Mode
    <3>2. wipes' = [wipes EXCEPT ![life][j]["cancel"] = FALSE]
      BY <1>6 DEF Drop
    <3> QED
      BY <1>3, <3>1, <3>2 DEF OfHelper
  <2>5. HelpersFollow'
    <3> SUFFICES ASSUME NEW l \in Life, NEW i \in Lease, NEW m \in Mode,
                        Running(l, i, m)'
                 PROVE  /\ l <= life
                        /\ l = life =>
                             /\ i <= generation
                             /\ m = "cancel" => phase' = "cancel"
                             /\ phase' \notin {"schedule", "idle", "exited"} => i # generation
      BY <1>2 DEF HelpersFollow
    <3>1. life \in Nat /\ generation \in Nat /\ i \in Nat
      BY <1>1 DEF TypeOK, Life, Lease
    <3>2. CASE Running(l, i, m)
      BY <1>1, <1>2, <3>2 DEF HelpersFollow
    <3>3. CASE ~Running(l, i, m)
      BY <1>2, <1>3, <2>3, <3>1, <3>3 DEF Running
    <3> QED
      BY <3>2, <3>3
  <2>6. Recorded'
    BY <1>1, <1>2, <1>3, <2>3 DEF Recorded
  <2>7. TypeOK'
    BY <1>1, <1>2, <2>2, <2>4 DEF TypeOK
  <2> QED
    BY <1>1, <1>2, <1>4, <2>5, <2>6, <2>7 DEF IInv
<1> QED
  BY <1>5, <1>6 DEF CancelStale

\* The file of the newest lease is written, or is not, while no helper of this
\* run looks at it.
LEMMA WriteStep ==
  ASSUME IInv, WriteRecord \/ Register
  PROVE  IInv'
<1>1. TypeOK /\ HelpersFollow /\ Counted /\ Recorded /\ IsInjective(history)
  BY DEF IInv
<1>2. /\ UNCHANGED <<clipboard, history, copied, life, generation, stale>>
      /\ UNCHANGED <<at, wipes, noted, refusals, misread>>
      /\ phase \in {"record", "register"} /\ phase' \in {"match", "again", "watch"}
      /\ file' = file \/ file' = [file EXCEPT ![generation] = life]
  BY DEF WriteRecord, Register, helpers, refused
<1>3. generation \in Lease /\ life \in Life /\ life \in 0..life
  BY <1>1, <1>2 DEF TypeOK, Counted, Lease, Life
<1>4. /\ file' \in [Lease -> 0..life]
      /\ \A i \in Lease : i # generation => file'[i] = file[i]
  BY <1>1, <1>2, <1>3 DEF TypeOK
<1>5. HelpersFollow' /\ Counted'
  BY <1>1, <1>2 DEF HelpersFollow, Running, Counted
<1>6. \A i \in Lease, m \in Mode : Running(life, i, m) => i # generation
  BY <1>1, <1>2, <1>3 DEF HelpersFollow
<1>7. Recorded'
  BY <1>1, <1>2, <1>4, <1>6 DEF Recorded, Running
<1>8. TypeOK'
  BY <1>1, <1>2, <1>4 DEF TypeOK
<1> QED
  BY <1>1, <1>2, <1>5, <1>7, <1>8 DEF IInv

\* The copy is over, and a helper of the newest lease starts, or does not.
LEMMA LaunchStep ==
  ASSUME IInv, LaunchWatcher \/ ScheduleClear
  PROVE  IInv'
<1>1. TypeOK /\ HelpersFollow /\ Counted /\ Recorded /\ IsInjective(history)
  BY DEF IInv
<1>2. /\ UNCHANGED <<clipboard, history, file, copied, life, generation, stale>>
      /\ UNCHANGED <<wipes, noted, refusals, misread>>
      /\ phase \in {"watch", "schedule"} /\ phase' \in {"schedule", "idle"}
  BY DEF LaunchWatcher, ScheduleClear, Launch, windows, refused
<1>3. PICK mode \in {"watch", "clear"} :
        Goto(<<life, generation, mode>>, "waiting") \/ UNCHANGED at
  BY DEF LaunchWatcher, ScheduleClear, Launch
<1>4. generation \in Lease /\ life \in Life
  BY <1>1, <1>2 DEF TypeOK, Counted, Lease
<1>5. Counted'
  BY <1>1, <1>2 DEF Counted
<1>6. CASE UNCHANGED at
  <2>1. HelpersFollow' /\ Recorded'
    BY <1>1, <1>2, <1>6 DEF HelpersFollow, Running, Recorded
  <2>2. TypeOK'
    BY <1>1, <1>2, <1>6 DEF TypeOK
  <2> QED
    BY <1>1, <1>2, <1>5, <2>1, <2>2 DEF IInv
<1>7. CASE Goto(<<life, generation, mode>>, "waiting")
  <2> DEFINE p == <<life, generation, mode>>
  <2>1. p \in Process
    BY <1>4 DEF Process, Mode
  <2>2. /\ at' \in OfHelper(Place)
        /\ \A l \in Life, i \in Lease, m \in Mode :
             at'[l][i][m] =
               IF l = p[1] /\ i = p[2] /\ m = p[3] THEN "waiting" ELSE at[l][i][m]
    BY <1>1, <1>7, <2>1, Moves DEF Place
  <2>3. \A l \in Life, i \in Lease, m \in Mode :
          at'[l][i][m] =
            IF l = life /\ i = generation /\ m = mode THEN "waiting" ELSE at[l][i][m]
    BY <2>2
  <2>4. HelpersFollow'
    <3> SUFFICES ASSUME NEW l \in Life, NEW i \in Lease, NEW m \in Mode,
                        Running(l, i, m)'
                 PROVE  /\ l <= life
                        /\ l = life =>
                             /\ i <= generation
                             /\ m = "cancel" => phase' = "cancel"
                             /\ phase' \notin {"schedule", "idle", "exited"} => i # generation
      BY <1>2 DEF HelpersFollow
    <3>1. life \in Nat /\ generation \in Nat /\ i \in Nat
      BY <1>1 DEF TypeOK, Life, Lease
    <3>2. CASE Running(l, i, m)
      BY <1>1, <1>2, <3>2 DEF HelpersFollow
    <3>3. CASE ~Running(l, i, m)
      BY <1>2, <1>3, <2>3, <3>1, <3>3 DEF Running
    <3> QED
      BY <3>2, <3>3
  <2>5. Recorded'
    BY <1>1, <1>2, <1>4, <2>3 DEF Recorded
  <2>6. TypeOK'
    BY <1>1, <1>2, <2>2 DEF TypeOK
  <2> QED
    BY <1>1, <1>2, <1>5, <2>4, <2>5, <2>6 DEF IInv
<1> QED
  BY <1>3, <1>6, <1>7

\* The user's thread looks at the copy, or syncpss quits.
LEMMA QuietStep ==
  ASSUME IInv, WaitForLeaseMatch \/ Exit
  PROVE  IInv'
<1>1. TypeOK /\ HelpersFollow /\ Counted /\ Recorded /\ IsInjective(history)
  BY DEF IInv
<1>2. /\ UNCHANGED <<clipboard, history, file, copied, life, generation, stale>>
      /\ UNCHANGED <<at, wipes, noted, misread>>
      /\ Granted \/ Denied
      /\ \/ phase = "match" /\ phase' \in {"watch", "again"}
         \/ phase = "idle" /\ phase' = "exited"
  BY DEF WaitForLeaseMatch, TestLeaseMatch, Granted, Exit, windows, helpers, refused
<1>3. HelpersFollow' /\ Counted'
  BY <1>1, <1>2 DEF HelpersFollow, Running, Counted
<1>4. Recorded'
  BY <1>1, <1>2 DEF Recorded
<1>5. TypeOK'
  <2>1. refusals' \in 0..MaxRefusals
    BY <1>1, <1>2, Counts DEF TypeOK
  <2> QED
    BY <1>1, <1>2, <2>1 DEF TypeOK
<1> QED
  BY <1>1, <1>2, <1>3, <1>4, <1>5 DEF IInv

\* A new run of syncpss has no helpers yet.
LEMMA StartStep ==
  ASSUME IInv, Start
  PROVE  IInv'
<1>1. TypeOK /\ HelpersFollow /\ Counted /\ Recorded /\ IsInjective(history)
  BY DEF IInv
<1>2. /\ UNCHANGED <<clipboard, history, file, copied, at, wipes, noted, refusals, misread>>
      /\ life < MaxLives /\ life' = life + 1 /\ generation' = 0 /\ stale' = {} /\ phase' = "idle"
  BY DEF Start, windows, helpers, refused
<1>3. life \in Life /\ life' \in Life /\ 0..life \subseteq 0..life'
  BY <1>1, <1>2 DEF TypeOK, Life
<1>4. \A l \in Life, i \in Lease, m \in Mode :
        Running(l, i, m) => l < life'
  BY <1>1, <1>2, <1>3 DEF HelpersFollow, Life
<1>5. HelpersFollow'
  BY <1>2, <1>3, <1>4 DEF HelpersFollow, Running, Life
<1>6. Counted'
  BY <1>2 DEF Counted
<1>7. Recorded'
  BY <1>2, <1>3, <1>4 DEF Recorded, Running, Life
<1>8. TypeOK'
  <2>1. noted' \in OfHelper(0..life')
    <3>1. noted \in OfHelper(0..life)
      BY <1>1 DEF TypeOK
    <3> QED
      BY <1>2, <1>3, <3>1 DEF OfHelper
  <2>2. file' \in [Lease -> 0..life']
    BY <1>1, <1>2, <1>3 DEF TypeOK
  <2> QED
    BY <1>1, <1>2, <1>3, <2>1, <2>2 DEF TypeOK
<1> QED
  BY <1>1, <1>2, <1>5, <1>6, <1>7, <1>8 DEF IInv

LEMMA NextIInv ==
  ASSUME IInv, [Next]_vars
  PROVE  IInv'
<1>1. CASE UNCHANGED vars
  <2>1. UNCHANGED <<clipboard, history, file, copied, life, generation, stale, phase,
                    at, wipes, noted, refusals, misread>>
    BY <1>1 DEF vars, windows, syncpss, helpers, refused
  <2>2. HelpersFollow' /\ Counted' /\ Recorded'
    BY <2>1 DEF IInv, HelpersFollow, Running, Counted, Recorded
  <2>3. TypeOK'
    BY <2>1 DEF IInv, TypeOK
  <2> QED
    BY <2>1, <2>2, <2>3 DEF IInv
<1>2. ASSUME NEW t \in Secret, Announce(t) PROVE IInv'
  BY <1>2, AnnounceStep
<1>3. CASE Copying
  BY <1>3, CancelStep, CopyStep, WriteStep, QuietStep, LaunchStep DEF Copying
<1>4. CASE Exit
  BY <1>4, QuietStep
<1>5. CASE Start
  BY <1>5, StartStep
<1>6. ASSUME NEW p \in Process, Helper(p) PROVE IInv'
  BY <1>6, WakeStep, ReadStep, WipeStep, ItemStep, FileStep DEF Helper
<1>7. ASSUME NEW c \in Other, OtherCopies(c) PROVE IInv'
  BY <1>7, OtherStep
<1> QED
  BY <1>1, <1>2, <1>3, <1>4, <1>5, <1>6, <1>7 DEF Next

\* Every behaviour under WSL keeps its types, for any number of copies and runs.
THEOREM WindowsTypeCorrect == Spec => []TypeOK
<1>1. Init => IInv
  BY InitIInv
<1>2. IInv /\ [Next]_vars => IInv'
  BY NextIInv
<1>3. IInv => TypeOK
  BY DEF IInv
<1> QED
  BY <1>1, <1>2, <1>3, PTL DEF Spec

\* While no helper of an earlier run is about, the file of a lease goes only after
\* its item of the clipboard history, or by a helper that could not remove the item.
THEOREM FileGoesLast == Spec => RecordOutlivesItem
<1> DEFINE Outlives ==
      \A i \in Lease : file[i] # 0 /\ file'[i] = 0 /\ ~Elder
        => \/ <<file[i], i>> \notin ToSet(history')
           \/ \E m \in Mode : at[life][i][m] = "left" /\ at'[life][i][m] = "none"
<1>1. Init => IInv
  BY InitIInv
<1>2. IInv /\ [Next]_vars => IInv'
  BY NextIInv
<1>3. IInv /\ [Next]_vars => [Outlives]_vars
  <2> SUFFICES ASSUME IInv, Next PROVE Outlives
    OBVIOUS
  <2> SUFFICES ASSUME NEW i \in Lease, file[i] # 0, file'[i] = 0, ~Elder,
                      ~ \E m \in Mode : at[life][i][m] = "left" /\ at'[life][i][m] = "none"
               PROVE  <<file[i], i>> \notin ToSet(history')
    OBVIOUS
  <2>1. TypeOK /\ HelpersFollow /\ Recorded
    BY DEF IInv
  <2>2. PICK p \in Process : RemoveLease(p)
    <3>1. life # 0 /\ life \in Nat
      BY <2>1 DEF TypeOK, Life
    <3>2. file' # file
      OBVIOUS
    <3>3. file' # [file EXCEPT ![generation] = life]
      BY <2>1, <3>1 DEF TypeOK
    <3> QED
      BY <3>2, <3>3 DEF Next, Announce, Copying, CancelStale,
         SetClipboard, WriteRecord, WaitForLeaseMatch,
         CopyAgain, Register, LaunchWatcher, ScheduleClear,
         Launch, Exit, Start, Helper, WatchLease,
         Wake, ReadRecord, ClearCurrentValue,
         RemoveHistoryItem, OtherCopies, windows
  <2>3. /\ history' = history /\ at[p[1]][p[2]][p[3]] \in {"file", "left"}
        /\ file' = [file EXCEPT ![p[2]] = 0] /\ Goto(p, "none")
    BY <2>2 DEF RemoveLease, Of
  <2>4. p[1] \in Life /\ p[2] \in Lease /\ p[3] \in Mode
    BY DEF Process
  <2>5. i = p[2]
    BY <2>1, <2>3 DEF TypeOK
  <2>6. p[1] = life
    <3>1. p[1] <= life /\ ~(p[1] < life)
      BY <2>1, <2>3, <2>4 DEF HelpersFollow, Running, Elder
    <3> QED
      BY <2>1, <2>4, <3>1 DEF TypeOK, Life
  <2>7. at'[p[1]][p[2]][p[3]] = "none"
    BY <2>1, <2>3, <2>4, Moves DEF Place
  <2> QED
    BY <2>1, <2>3, <2>4, <2>5, <2>6, <2>7 DEF Recorded
<1> QED
  BY <1>1, <1>2, <1>3, PTL DEF Spec, RecordOutlivesItem
=============================================================================
