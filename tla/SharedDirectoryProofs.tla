------------------------- MODULE SharedDirectoryProofs -------------------------
(***************************************************************************)
(* Proofs about SharedDirectory for any number of processes, any sizes and *)
(* any timeouts.                                                           *)
(***************************************************************************)
EXTENDS SharedDirectory, SequenceTheorems, TLAPS

File == [exists : BOOLEAN, bytes : Seq(BOOLEAN)]

Places == Holding \cup Verified
            \cup {"Idle", "Lookup", "Remove", "Clean", "Request", "Verify", "Discard"}

TypeOK ==
  /\ tmp \in File
  /\ final \in File
  /\ pc \in [Processes -> Places]
  /\ received \in [Processes -> Nat]
  /\ available \in [Processes -> Nat]
  /\ elapsed \in [Processes -> Nat]
  /\ touched \in [Processes -> BOOLEAN]

(* What holds of one process wherever the others are.                       *)
Counts(p) ==
  /\ received[p] <= ExpectedSize
  /\ elapsed[p] <= TransferTimeout + 2 * CallTimeout
  /\ pc[p] = "Read" => /\ available[p] <= ExpectedSize - received[p]
                       /\ elapsed[p] <= TransferTimeout + CallTimeout
  /\ pc[p] \in {"Verify"} \cup Verified => received[p] = ExpectedSize

OwnsFile(p) ==
  ~touched[p] =>
    /\ pc[p] \in Holding \cup {"Verify"} \cup Verified =>
         tmp.exists /\ Len(tmp.bytes) = received[p]
    /\ pc[p] \in Verified => IsIntact(tmp)

IInv == TypeOK /\ \A p \in Processes : Counts(p) /\ OwnsFile(p)

(* A count below the word's size is not changed by the subtraction's wrap. *)
LEMMA ModSmall ==
  ASSUME NEW a \in Nat, NEW w \in Nat, a < w
  PROVE  a % w = a
BY SMT

(* A write at the end of the file makes it longer by what was written.     *)
LEMMA AfterWriteLength ==
  ASSUME NEW file \in Seq(BOOLEAN), NEW from \in Nat, NEW count \in Nat, NEW good \in BOOLEAN
  PROVE  /\ AfterWrite(file, from, count, good) \in Seq(BOOLEAN)
         /\ Len(file) = from => Len(AfterWrite(file, from, count, good)) = from + count
<1> DEFINE end == IF Len(file) > from + count THEN Len(file) ELSE from + count
<1> DEFINE bit(n) == IF n \in (from + 1)..(from + count) THEN good
                     ELSE n \in DOMAIN file /\ file[n]
<1>1. end \in Nat /\ (Len(file) = from => end = from + count)
  BY LenProperties
<1>2. \A n \in 1..end : bit(n) \in BOOLEAN
  <2> TAKE n \in 1..end
  <2>1. CASE n \in (from + 1)..(from + count)
    BY <2>1
  <2>2. CASE n \notin (from + 1)..(from + count)
    BY <2>2
  <2> QED BY <2>1, <2>2
<1>3. AfterWrite(file, from, count, good) = [n \in 1..end |-> bit(n)]
  BY DEF AfterWrite
<1> HIDE DEF end, bit
<1>4. [n \in 1..end |-> bit(n)] \in Seq(BOOLEAN) /\ Len([n \in 1..end |-> bit(n)]) = end
  BY <1>1, <1>2, LenProperties
<1> QED BY <1>1, <1>3, <1>4

(* A process whose own fields stay as they were keeps its part of the       *)
(* invariant, when the file did not change or the step marked it touched.   *)
LEMMA OthersKeep ==
  ASSUME NEW q \in Processes, Counts(q), OwnsFile(q),
         pc'[q] = pc[q], received'[q] = received[q],
         available'[q] = available[q], elapsed'[q] = elapsed[q],
         \/ touched'[q]
         \/ touched'[q] = touched[q] /\ tmp' = tmp
  PROVE  Counts(q)' /\ OwnsFile(q)'
BY DEF Counts, OwnsFile, IsIntact
-----------------------------------------------------------------------------
(* The invariant holds when the processes start.                            *)
LEMMA InitInvariant == Init => IInv
<1> SUFFICES ASSUME Init PROVE IInv
  OBVIOUS
<1>1. NoFile \in File /\ [exists |-> TRUE, bytes |-> <<FALSE>>] \in File
  BY DEF NoFile, File
<1>2. TypeOK
  BY <1>1 DEF Init, FetchInit, TypeOK, Places, Holding, Verified
<1>3. ASSUME NEW p \in Processes PROVE Counts(p) /\ OwnsFile(p)
  <2>1. pc[p] = "Idle" /\ received[p] = 0 /\ elapsed[p] = 0
    BY DEF Init, FetchInit
  <2>2. Counts(p)
    BY <2>1, FetchAssumption DEF Counts, Verified
  <2>3. OwnsFile(p)
    BY <2>1 DEF OwnsFile, Holding, Verified
  <2> QED BY <2>2, <2>3
<1> QED BY <1>2, <1>3 DEF IInv

(* A step of the loop that copies the response.                             *)
LEMMA FetchKeepsInvariant ==
  ASSUME IInv, NEW p \in Processes, FetchStep(p), final' = final
  PROVE  IInv'
<1> USE DEF Goto, Returns, Waits, Places, Holding, Verified, TypeOK
<1>0. TypeOK /\ Counts(p) /\ OwnsFile(p)
  BY DEF IInv
<1>1. \A q \in Processes \ {p} : Counts(q) /\ OwnsFile(q)
  BY DEF IInv
<1>2. ASSUME TypeOK', Counts(p)', OwnsFile(p)',
             \A q \in Processes \ {p} :
               /\ pc'[q] = pc[q] /\ received'[q] = received[q]
               /\ available'[q] = available[q] /\ elapsed'[q] = elapsed[q]
               /\ touched'[q] \/ (touched'[q] = touched[q] /\ tmp' = tmp)
      PROVE  IInv'
  BY <1>1, <1>2, OthersKeep DEF IInv
<1>3. CASE RequestFails(p)
  BY <1>0, <1>2, <1>3 DEF RequestFails, Counts, OwnsFile, IsIntact
<1>4. CASE Open(p)
  <2>1. tmp' \in File /\ tmp'.exists /\ Len(tmp'.bytes) = 0
    BY <1>4, EmptySeq DEF Open, File
  <2>2. TypeOK'
    BY <1>0, <1>4, <2>1 DEF Open
  <2>3. pc'[p] = "Poll" /\ received'[p] = 0 /\ elapsed'[p] = 0
    BY <1>0, <1>4 DEF Open
  <2>4. Counts(p)'
    BY <2>3, FetchAssumption DEF Counts
  <2>5. OwnsFile(p)'
    BY <2>1, <2>3 DEF OwnsFile
  <2> QED BY <1>0, <1>2, <1>4, <2>2, <2>4, <2>5 DEF Open
<1>5. CASE Expires(p)
  BY <1>0, <1>2, <1>5 DEF Expires, Counts, OwnsFile, IsIntact
<1>6. CASE QueryFails(p)
  BY <1>0, <1>2, <1>6, FetchAssumption DEF QueryFails, Query, Counts, OwnsFile, IsIntact
<1>7. CASE QueryData(p)
  <2>1. ExpectedSize - received[p] \in Nat /\ ExpectedSize - received[p] < WordSize
    BY <1>0, FetchAssumption DEF Counts
  <2>2. Remaining(p) = ExpectedSize - received[p]
    BY <2>1, ModSmall, FetchAssumption DEF Remaining
  <2>3. PICK bytes \in 1..(ExpectedSize - received[p]) :
          available' = [available EXCEPT ![p] = bytes]
    BY <1>7, <2>2 DEF QueryData
  <2>4. PICK ticks \in 0..CallTimeout : elapsed' = [elapsed EXCEPT ![p] = @ + ticks]
    BY <1>7 DEF QueryData, Query
  <2>5. /\ pc[p] = "Poll" /\ pc' = [pc EXCEPT ![p] = "Read"]
        /\ elapsed[p] <= TransferTimeout
        /\ UNCHANGED <<tmp, received, touched>>
    BY <1>7 DEF QueryData, Query
  <2>6. bytes \in Nat /\ bytes <= ExpectedSize - received[p]
        /\ ticks \in Nat /\ ticks <= CallTimeout
    BY <2>1, FetchAssumption
  <2>7. TypeOK'
    BY <1>0, <2>3, <2>4, <2>5, <2>6
  <2>8. /\ available'[p] = bytes /\ elapsed'[p] = elapsed[p] + ticks
        /\ pc'[p] = "Read" /\ received'[p] = received[p]
    BY <1>0, <2>3, <2>4, <2>5
  <2>9. Counts(p)'
    BY <1>0, <2>5, <2>6, <2>8, FetchAssumption DEF Counts
  <2>10. OwnsFile(p)'
    BY <1>0, <2>5, <2>8 DEF OwnsFile
  <2>11. ASSUME NEW q \in Processes \ {p}
         PROVE  /\ pc'[q] = pc[q] /\ received'[q] = received[q]
                /\ available'[q] = available[q] /\ elapsed'[q] = elapsed[q]
                /\ touched'[q] = touched[q] /\ tmp' = tmp
    BY <1>0, <2>3, <2>4, <2>5
  <2> HIDE DEF TypeOK
  <2> QED BY <1>2, <2>7, <2>9, <2>10, <2>11
<1>8. CASE QueryEnd(p)
  BY <1>0, <1>2, <1>8, FetchAssumption DEF QueryEnd, Query, Counts, OwnsFile, IsIntact
<1>9. CASE ReadData(p)
  <2>1. PICK ticks \in 0..CallTimeout : elapsed' = [elapsed EXCEPT ![p] = @ + ticks]
    BY <1>9 DEF ReadData
  <2>2. PICK count \in 1..available[p], good \in BOOLEAN :
          /\ tmp' = [tmp EXCEPT !.bytes = AfterWrite(@, received[p], count, good)]
          /\ received' = [received EXCEPT ![p] = @ + count]
    BY <1>9 DEF ReadData
  <2>3. /\ tmp.bytes \in Seq(BOOLEAN) /\ received[p] \in Nat /\ count \in Nat
        /\ received[p] + count <= ExpectedSize
    <3>1. available[p] <= ExpectedSize - received[p] /\ received[p] <= ExpectedSize
      BY <1>0, <1>9 DEF ReadData, Counts
    <3>2. tmp.bytes \in Seq(BOOLEAN) /\ received[p] \in Nat /\ available[p] \in Nat
      BY <1>0 DEF File
    <3> HIDE DEF TypeOK
    <3> QED BY <3>1, <3>2, FetchAssumption
  <2>4. /\ tmp' \in File /\ tmp'.exists = tmp.exists
        /\ Len(tmp.bytes) = received[p] => Len(tmp'.bytes) = received[p] + count
    <3> DEFINE written == AfterWrite(tmp.bytes, received[p], count, good)
    <3>1. written \in Seq(BOOLEAN)
          /\ (Len(tmp.bytes) = received[p] => Len(written) = received[p] + count)
      BY <2>3, AfterWriteLength
    <3>2. tmp' = [tmp EXCEPT !.bytes = written]
      BY <2>2
    <3> HIDE DEF written
    <3> QED BY <1>0, <3>1, <3>2 DEF File
  <2>5. /\ pc' = [pc EXCEPT ![p] = "Poll"] /\ available' = [available EXCEPT ![p] = 0]
        /\ touched' = [q \in Processes |-> q # p \/ touched[q]]
        /\ final' = final
        /\ elapsed[p] <= TransferTimeout + CallTimeout
    BY <1>0, <1>9 DEF ReadData, TouchedBy, Counts
  <2>6. ticks \in Nat /\ ticks <= CallTimeout
    BY FetchAssumption
  <2>7. TypeOK'
    <3>1. received' \in [Processes -> Nat] /\ elapsed' \in [Processes -> Nat]
      BY <1>0, <2>1, <2>2, <2>3, <2>6
    <3>2. /\ pc' \in [Processes -> Places] /\ available' \in [Processes -> Nat]
          /\ touched' \in [Processes -> BOOLEAN]
      BY <1>0, <2>5
    <3> QED BY <1>0, <2>4, <2>5, <3>1, <3>2
  <2>8. /\ pc'[p] = "Poll" /\ touched'[p] = touched[p]
        /\ received'[p] = received[p] + count
        /\ elapsed'[p] = elapsed[p] + ticks
    BY <1>0, <2>1, <2>2, <2>5
  <2>9. Counts(p)'
    BY <1>0, <2>3, <2>5, <2>6, <2>8, FetchAssumption DEF Counts
  <2>10. pc[p] = "Read"
    BY <1>9 DEF ReadData
  <2>11. OwnsFile(p)'
    BY <1>0, <2>4, <2>8, <2>10 DEF OwnsFile
  <2>12. ASSUME NEW q \in Processes \ {p}
         PROVE  /\ pc'[q] = pc[q] /\ received'[q] = received[q]
                /\ available'[q] = available[q] /\ elapsed'[q] = elapsed[q]
                /\ touched'[q]
    BY <1>0, <2>1, <2>2, <2>5
  <2> HIDE DEF TypeOK
  <2> QED BY <1>2, <2>7, <2>9, <2>11, <2>12
<1>10. CASE ReadFails(p)
  BY <1>0, <1>2, <1>10, FetchAssumption DEF ReadFails, Counts, OwnsFile, IsIntact
<1>11. CASE CloseFile(p)
  <2>1. /\ pc' = [pc EXCEPT ![p] = pc'[p]] /\ pc'[p] \in {"Verify", "Discard"}
        /\ pc'[p] = "Verify" => received[p] = ExpectedSize
        /\ available' = [available EXCEPT ![p] = 0]
    BY <1>0, <1>11 DEF CloseFile
  <2>2. pc[p] = "Close" /\ UNCHANGED <<tmp, received, elapsed, touched>>
    BY <1>11 DEF CloseFile
  <2>3. TypeOK'
    BY <1>0, <2>1, <2>2
  <2>4. Counts(p)' /\ OwnsFile(p)'
    BY <1>0, <2>1, <2>2 DEF Counts, OwnsFile
  <2> QED BY <1>0, <1>2, <2>1, <2>2, <2>3, <2>4
<1> QED BY <1>3, <1>4, <1>5, <1>6, <1>7, <1>8, <1>9, <1>10, <1>11 DEF FetchStep

(* The steps of Process and of the cache.                                   *)
LEMMA StepKeepsInvariant ==
  ASSUME IInv, NEW p \in Processes, Begin(p) \/ Step(p)
  PROVE  IInv'
<1> USE DEF Goto, End, RemoveTemporary, TouchedBy, Places, Verified, TypeOK
<1>0. TypeOK /\ Counts(p) /\ OwnsFile(p) /\ NoFile \in File
  BY DEF IInv, NoFile, File
<1>1. \A q \in Processes \ {p} : Counts(q) /\ OwnsFile(q)
  BY DEF IInv
<1>2. ASSUME TypeOK', Counts(p)', OwnsFile(p)',
             \A q \in Processes \ {p} :
               /\ pc'[q] = pc[q] /\ received'[q] = received[q]
               /\ available'[q] = available[q] /\ elapsed'[q] = elapsed[q]
               /\ touched'[q] \/ (touched'[q] = touched[q] /\ tmp' = tmp)
      PROVE  IInv'
  BY <1>1, <1>2, OthersKeep DEF IInv
<1>3. CASE Begin(p)
  BY <1>0, <1>2, <1>3 DEF Begin, Counts, OwnsFile, Holding
<1>4. CASE FetchStep(p) /\ UNCHANGED <<final, verdict>>
  BY <1>4, FetchKeepsInvariant
<1>5. CASE Lookup(p)
  BY <1>0, <1>2, <1>5 DEF Lookup, Counts, OwnsFile, Holding
<1>6. CASE Clean(p)
  BY <1>0, <1>2, <1>6 DEF Clean, Counts, OwnsFile, Holding
<1>7. CASE Verify(p)
  BY <1>0, <1>2, <1>7 DEF Verify, Counts, OwnsFile, IsIntact, Holding
<1>8. CASE CommitFound(p)
  BY <1>0, <1>2, <1>8 DEF CommitFound, Counts, OwnsFile, Holding
<1>9. CASE Rename(p)
  <2>1. CASE /\ final' = tmp /\ tmp' = NoFile
             /\ touched' = [q \in Processes |-> q # p \/ touched[q]]
             /\ pc' = [pc EXCEPT ![p] = "Idle"]
             /\ UNCHANGED <<received, available, elapsed>>
    <3>1. TypeOK'
      BY <1>0, <2>1 DEF Holding
    <3>2. Counts(p)' /\ OwnsFile(p)'
      BY <1>0, <2>1 DEF Counts, OwnsFile, Holding
    <3> QED BY <1>0, <1>2, <2>1, <3>1, <3>2
  <2>2. CASE /\ pc' = [pc EXCEPT ![p] = "Discard"]
             /\ UNCHANGED <<tmp, touched, final, received, available, elapsed>>
    <3>1. TypeOK'
      BY <1>0, <2>2 DEF Holding
    <3>2. Counts(p)' /\ OwnsFile(p)'
      BY <1>0, <2>2 DEF Counts, OwnsFile, Holding
    <3> QED BY <1>0, <1>2, <2>2, <3>1, <3>2
  <2> QED BY <1>9, <2>1, <2>2 DEF Rename
<1>10. CASE Discard(p)
  <2>1. TypeOK'
    BY <1>0, <1>10 DEF Discard
  <2>2. Counts(p)' /\ OwnsFile(p)'
    BY <1>0, <1>10 DEF Discard, Counts, OwnsFile, Holding
  <2> QED BY <1>0, <1>2, <1>10, <2>1, <2>2 DEF Discard
<1>11. CASE LookupRemoves(p)
  <2>1. /\ final' \in {final, NoFile}
        /\ UNCHANGED <<tmp, received, available, elapsed, touched>>
        /\ \/ pc' = [pc EXCEPT ![p] = "Clean"]
           \/ pc' = [pc EXCEPT ![p] = "Idle"]
           \/ pc[p] = "Replace" /\ pc' = [pc EXCEPT ![p] = "Rename"]
    BY <1>11 DEF LookupRemoves
  <2>2. TypeOK'
    BY <1>0, <2>1
  <2>3. Counts(p)' /\ OwnsFile(p)'
    BY <1>0, <2>1 DEF Counts, OwnsFile, Holding, IsIntact
  <2> QED BY <1>0, <1>2, <2>1, <2>2, <2>3
<1>12. CASE CommitMisses(p)
  <2>1. /\ pc[p] = "Commit" /\ UNCHANGED <<tmp, received, available, elapsed, touched, final>>
        /\ \/ pc' = [pc EXCEPT ![p] = "Replace"]
           \/ pc' = [pc EXCEPT ![p] = "Rename"]
    BY <1>12 DEF CommitMisses
  <2>2. TypeOK'
    BY <1>0, <2>1
  <2>3. Counts(p)' /\ OwnsFile(p)'
    BY <1>0, <2>1 DEF Counts, OwnsFile, Holding, IsIntact
  <2> QED BY <1>0, <1>2, <2>1, <2>2, <2>3
<1> QED BY <1>3, <1>4, <1>5, <1>6, <1>7, <1>8, <1>9, <1>10, <1>11, <1>12 DEF Step

(* Every step of every process keeps the invariant.                         *)
LEMMA NextKeepsInvariant == IInv /\ [Next]_vars => IInv'
<1> SUFFICES ASSUME IInv, [Next]_vars PROVE IInv'
  OBVIOUS
<1>1. CASE Next
  BY <1>1, StepKeepsInvariant DEF Next
<1>2. CASE UNCHANGED vars
  BY <1>2 DEF vars, fetchVars, IInv, TypeOK, Counts, OwnsFile, IsIntact
<1> QED BY <1>1, <1>2

(* The invariant holds in every reachable state.                            *)
LEMMA Invariance == Spec => []IInv
BY InitInvariant, NextKeepsInvariant, PTL DEF Spec
-----------------------------------------------------------------------------
(* A transfer outlasts its deadline by two calls at most, whatever the      *)
(* timeouts and the file sizes are.                                         *)
THEOREM DeadlineIsKept == Spec => []DeadlineHolds
<1>1. IInv => DeadlineHolds
  BY DEF IInv, Counts, DeadlineHolds
<1> QED BY <1>1, Invariance, PTL

(* Without interference the temporary file has the bytes received, and      *)
(* Fetch succeeds with exactly the announced number of them.                *)
THEOREM FetchDelivers == Spec => []FileIsWhatWasReceived
<1>1. IInv => FileIsWhatWasReceived
  BY DEF IInv, Counts, OwnsFile, FileIsWhatWasReceived
<1> QED BY <1>1, Invariance, PTL

(* Nothing but a verified file is renamed into the cache, however many      *)
(* processes share it, unless another process used the temporary file       *)
(* between the verification and the rename.                                 *)
THEOREM OnlyVerifiedIsRenamed == Spec => RenamedIsVerified
<1> DEFINE Renames == final' # final =>
                        \/ final' = NoFile
                        \/ IsIntact(final')
                        \/ \E p \in Processes : pc[p] = "Rename" /\ touched[p]
<1>1. ASSUME IInv, [Next]_vars PROVE [Renames]_vars
  <2> SUFFICES ASSUME final' # final PROVE Renames
    OBVIOUS
  <2>1. PICK p \in Processes : Begin(p) \/ Step(p)
    BY <1>1 DEF Next, vars
  <2>2. CASE LookupRemoves(p)
    BY <2>2 DEF LookupRemoves
  <2>3. CASE Rename(p)
    <3>1. final' = tmp /\ pc[p] = "Rename"
      BY <2>3 DEF Rename
    <3>2. touched[p] \/ IsIntact(tmp)
      BY <1>1, <3>1 DEF IInv, OwnsFile, Verified
    <3> QED BY <3>1, <3>2 DEF IsIntact
  <2>4. CASE ~LookupRemoves(p) /\ ~Rename(p)
    BY <2>1, <2>4 DEF Begin, Step, Lookup, Clean, Verify, CommitFound, CommitMisses, Discard
  <2> QED BY <2>2, <2>3, <2>4
<1> QED BY <1>1, Invariance, PTL DEF Spec, RenamedIsVerified
=============================================================================
