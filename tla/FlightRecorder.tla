--------------------------- MODULE FlightRecorder ---------------------------
(***************************************************************************)
(* The bounded recording of host output kept by every session              *)
(* (flightrecorder.go).  The recorder is a value: a session holds one and  *)
(* replaces it by the result of Output or Resized.  A record is either     *)
(*   [type |-> "output", bytes |-> number of bytes, revision |-> r]        *)
(*   [type |-> "resize", size |-> s]                                       *)
(* Offsets and the bytes themselves are left out: nothing here depends on  *)
(* them.                                                                   *)
(***************************************************************************)
EXTENDS Naturals, Sequences, SequencesExt

CONSTANTS
  FlightRecorderBytes,    \* bound on the bytes kept (64 KiB in the code)
  FlightRecorderRecords   \* bound on the records kept (4096 in the code)

ASSUME RecorderAssumption ==
  /\ FlightRecorderBytes \in Nat
  /\ FlightRecorderRecords \in Nat

NewFlightRecorder(size) ==
  [size |-> size, droppedBytes |-> 0, bytes |-> 0, records |-> <<>>]

OutputRecord(bytes, revision) ==
  [type |-> "output", bytes |-> bytes, revision |-> revision]

ResizeRecord(size) == [type |-> "resize", size |-> size]

(* Bytes carried by one record: a resize carries none. *)
RecordBytes(record) == IF record.type = "output" THEN record.bytes ELSE 0

TotalBytes(records) ==
  LET total[n \in 0..Len(records)] ==
        IF n = 0 THEN 0 ELSE total[n - 1] + RecordBytes(records[n])
  IN  total[Len(records)]

(* The dimensions in effect after the records, if before them it was size. *)
SizeAfter(size, records) ==
  LET after[n \in 0..Len(records)] ==
        IF n = 0 THEN size
        ELSE IF records[n].type = "resize" THEN records[n].size ELSE after[n - 1]
  IN  after[Len(records)]

(* The loop of evict stops at the first number of dropped records for      *)
(* which both bounds hold, or when nothing is left.                        *)
FitsBelowAfter(r, drop) ==   \* mutant: a recorder filled to its bound drops a record
  \/ drop = Len(r.records)
  \/ /\ r.bytes - TotalBytes(SubSeq(r.records, 1, drop)) < FlightRecorderBytes
     /\ Len(r.records) - drop <= FlightRecorderRecords

FitsAfter(r, drop) ==
  \/ drop = Len(r.records)
  \/ /\ r.bytes - TotalBytes(SubSeq(r.records, 1, drop)) <= FlightRecorderBytes
     /\ Len(r.records) - drop <= FlightRecorderRecords

Evict(r) ==
  LET drop == CHOOSE d \in 0..Len(r.records) :
                /\ FitsAfter(r, d)
                /\ \A e \in 0..(d - 1) : ~FitsAfter(r, e)
      gone == SubSeq(r.records, 1, drop)
  IN  [size         |-> SizeAfter(r.size, gone),
       droppedBytes |-> r.droppedBytes + TotalBytes(gone),
       bytes        |-> r.bytes - TotalBytes(gone),
       records      |-> SubSeq(r.records, drop + 1, Len(r.records))]

(* output, once apply has run: append the read, then evict. *)
Output(r, bytes, revision) ==
  Evict([r EXCEPT !.records = Append(@, OutputRecord(bytes, revision)),
                  !.bytes   = @ + bytes])

(* resize: append the new dimensions, then evict. *)
Resized(r, size) == Evict([r EXCEPT !.records = Append(@, ResizeRecord(size))])
=============================================================================
