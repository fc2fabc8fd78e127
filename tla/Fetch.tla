-------------------------------- MODULE Fetch --------------------------------
(***************************************************************************)
(* WinHttpFetchBackend::Fetch (client/src/assets/winhttp_fetch.cpp) for    *)
(* game processes that download one file into one cache directory: the     *)
(* request, and the loop that copies the response into the temporary file  *)
(* under a deadline.  A file is a sequence of bytes, of which only matters *)
(* whether each is the byte the announced digest calls for.  Time is what  *)
(* the blocking WinHTTP calls take.                                        *)
(***************************************************************************)
EXTENDS Integers, Sequences

CONSTANTS Processes,         (* the game processes                           *)
          ExpectedSize,      (* the announced file size                      *)
          BufferSize,        (* bytes of one read, 65536                     *)
          TransferTimeout,   (* transferTimeoutMilliseconds                  *)
          CallTimeout,       (* connectionTimeoutMilliseconds, of one call   *)
          WordSize           (* 2^64                                         *)

ASSUME FetchAssumption ==
  /\ ExpectedSize \in Nat \ {0}
  /\ BufferSize \in Nat \ {0}
  /\ TransferTimeout \in Nat
  /\ CallTimeout \in Nat
  /\ WordSize \in Nat
  /\ ExpectedSize < WordSize

VARIABLES tmp,         (* the file at TemporaryPathFor, shared               *)
          pc,          (* where each process's worker is                     *)
          received,    (* received                                           *)
          available,   (* available                                          *)
          elapsed,     (* GetTickCount64() - started                         *)
          touched      (* history: whether another process has created,      *)
                       (* written, removed or renamed the file since this    *)
                       (* one created it                                     *)

fetchVars == <<tmp, pc, received, available, elapsed, touched>>

NoFile == [exists |-> FALSE, bytes |-> <<>>]
Goto(p, place) == pc' = [pc EXCEPT ![p] = place]

(* A process holds the file open until Fetch returns, without               *)
(* FILE_SHARE_DELETE: others may open and write it, not remove or rename it. *)
Holding == {"Poll", "Read", "Close"}
IsHeldByOther(p) == \E q \in Processes \ {p} : pc[q] \in Holding

TouchedBy(p) == touched' = [q \in Processes |-> q # p \/ touched[q]]

Remaining(p) == (ExpectedSize - received[p]) % WordSize

FetchInit ==
  /\ received = [p \in Processes |-> 0]
  /\ available = [p \in Processes |-> 0]
  /\ elapsed = [p \in Processes |-> 0]
  /\ touched = [p \in Processes |-> FALSE]
-----------------------------------------------------------------------------
(* The URL, the request or the response is no good: the destination is not  *)
(* touched.  A Content-Length that is not the announced size is one reason. *)
RequestFails(p) ==
  /\ pc[p] = "Request"
  /\ Goto(p, "Discard")
  /\ UNCHANGED <<tmp, received, available, elapsed, touched>>

(* std::ofstream opens with trunc, whoever else has the file open.          *)
Open(p) ==
  /\ pc[p] = "Request"
  /\ tmp' = [exists |-> TRUE, bytes |-> <<>>]
  /\ touched' = [q \in Processes |-> q # p]
  /\ received' = [received EXCEPT ![p] = 0]
  /\ elapsed' = [elapsed EXCEPT ![p] = 0]
  /\ Goto(p, "Poll")
  /\ UNCHANGED available

(* Every return of Fetch closes the file; a failure is not told apart here. *)
Returns(p, place) ==
  /\ Goto(p, place)
  /\ available' = [available EXCEPT ![p] = 0]

Waits(p) == \E ticks \in 0..CallTimeout :
              elapsed' = [elapsed EXCEPT ![p] = @ + ticks]

Expires(p) ==
  /\ pc[p] = "Poll"
  /\ elapsed[p] > TransferTimeout
  /\ Returns(p, "Discard")
  /\ UNCHANGED <<tmp, received, elapsed, touched>>

(* Mutant: the deadline is not looked at before a call.                     *)
Query_NoDeadline(p) ==
  /\ pc[p] = "Poll"
  /\ Waits(p)
  /\ UNCHANGED <<tmp, received, touched>>

Query(p) ==
  /\ pc[p] = "Poll"
  /\ elapsed[p] <= TransferTimeout
  /\ Waits(p)
  /\ UNCHANGED <<tmp, received, touched>>

(* WinHttpQueryDataAvailable fails, or there is more than was announced.    *)
QueryFails(p) == Query(p) /\ Returns(p, "Discard")

QueryData(p) ==
  /\ Query(p)
  /\ \E bytes \in 1..Remaining(p) : available' = [available EXCEPT ![p] = bytes]
  /\ Goto(p, "Read")

QueryEnd(p) ==
  /\ Query(p)
  /\ Goto(p, "Close")
  /\ UNCHANGED available

(* A handle writes at its own offset, wherever the file's end is by then.   *)
AfterWrite(file, from, count, good) ==
  LET end == IF Len(file) > from + count THEN Len(file) ELSE from + count IN
  [n \in 1..end |-> IF n \in (from + 1)..(from + count) THEN good
                    ELSE n \in DOMAIN file /\ file[n]]

(* Mutant: an empty read is not an error.                                   *)
ReadData_MayBeEmpty(p) ==
  /\ pc[p] = "Read"
  /\ Waits(p)
  /\ \E count \in 0..available[p], good \in BOOLEAN :
       /\ count <= BufferSize
       /\ tmp' = [tmp EXCEPT !.bytes = AfterWrite(@, received[p], count, good)]
       /\ received' = [received EXCEPT ![p] = @ + count]
  /\ TouchedBy(p)
  /\ Returns(p, "Poll")

(* Mutant: the count is taken before the bytes are written.                 *)
ReadData_CountsAvailable(p) ==
  /\ pc[p] = "Read"
  /\ Waits(p)
  /\ \E count \in 1..available[p], good \in BOOLEAN :
       /\ count <= BufferSize
       /\ tmp' = [tmp EXCEPT !.bytes = AfterWrite(@, received[p], count, good)]
       /\ received' = [received EXCEPT ![p] = @ + available[p]]
  /\ TouchedBy(p)
  /\ Returns(p, "Poll")

ReadData(p) ==
  /\ pc[p] = "Read"
  /\ Waits(p)
  /\ \E count \in 1..available[p], good \in BOOLEAN :
       /\ count <= BufferSize
       /\ tmp' = [tmp EXCEPT !.bytes = AfterWrite(@, received[p], count, good)]
       /\ received' = [received EXCEPT ![p] = @ + count]
  /\ TouchedBy(p)
  /\ Returns(p, "Poll")

(* WinHttpReadData fails or returns nothing, or the file takes no more.     *)
ReadFails(p) ==
  /\ pc[p] = "Read"
  /\ Waits(p)
  /\ Returns(p, "Discard")
  /\ UNCHANGED <<tmp, received, touched>>

(* FetchError::None is returned for the whole announced size only.          *)
CloseFile(p) ==
  /\ pc[p] = "Close"
  /\ \/ received[p] = ExpectedSize /\ Returns(p, "Verify")
     \/ Returns(p, "Discard")
  /\ UNCHANGED <<tmp, received, elapsed, touched>>

FetchStep(p) ==
  \/ RequestFails(p) \/ Open(p) \/ Expires(p) \/ QueryFails(p) \/ QueryData(p)
  \/ QueryEnd(p) \/ ReadData(p) \/ ReadFails(p) \/ CloseFile(p)
=============================================================================
