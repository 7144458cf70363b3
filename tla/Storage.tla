-------------------------------- MODULE Storage --------------------------------
(***************************************************************************)
(* The two append-only files of the gate and the process that writes them: *)
(* the sender file of src/src/persistence.c and the audit file of          *)
(* src/src/audit_log.c.  The process may die at any time, in the middle of *)
(* a write too, and start again; the files stay (a crash of the process,   *)
(* not of the machine).  A write may be short or fail (a full disk).       *)
(*                                                                         *)
(* A record of the sender file is Parts parts long, and a part is the pair *)
(* of the write it belongs to and its place in the record: what recovery   *)
(* reads back is a whole record, or parts of several.  A hash is the tuple *)
(* of what went into it (the bytes hashed reach into event_hash, which is  *)
(* still zero then).                                                       *)
(* writes, newest, hashed and runStart are history variables.  MaxWrites   *)
(* and MaxEvents bound the two files.                                      *)
(***************************************************************************)
EXTENDS Naturals, Sequences, Hashes

CONSTANTS Parts,        \* parts of one record of the sender file
          Event,        \* what is logged: ids, sequence number, decision, time
          MaxWrites, MaxEvents

ASSUME StorageAssumption == /\ Parts \in Nat \ {0}
                            /\ MaxWrites \in Nat
                            /\ MaxEvents \in Nat

VARIABLES up,           \* the process runs
          wal,          \* the sender file: a sequence of parts
          audit,        \* the audit file: a sequence of records and fragments
          last_hash, initialized,
          writes,       \* records of the sender file begun so far
          newest,       \* the last record written whole, and where it starts
          hashed,       \* events this run of the process has hashed
          runStart      \* length of the audit file when this run began

senderFile == <<wal, writes, newest>>
auditFile == <<audit, hashed>>
memory == <<last_hash, initialized>>
storage == <<up, senderFile, auditFile, memory, runStart>>

None == [write |-> 0, start |-> 0]

StorageInit == /\ up = TRUE
               /\ wal = <<>> /\ writes = 0 /\ newest = None
               /\ audit = <<>> /\ hashed = 0 /\ runStart = 0
               /\ last_hash = Zero /\ initialized = FALSE

-----------------------------------------------------------------------------
(* The sender file.                                                        *)
Record(w) == [k \in 1 .. Parts |-> <<w, k>>]

(* Defect: the file is opened with O_TRUNC, as wal_test.c does. *)
WrittenTruncating(parts) == parts

Written(parts) == wal \o parts

(* n parts of the next record reach the end of the file. *)
WriteRecord(n) ==
  /\ writes < MaxWrites
  /\ writes' = writes + 1
  /\ wal' = Written(SubSeq(Record(writes + 1), 1, n))
  /\ newest' = IF n = Parts THEN [write |-> writes + 1, start |-> Len(wal)] ELSE newest

(* It returns 0 for n = Parts and -1 for less; what was written stays. *)
persist_sender_state(n) == /\ up
                           /\ WriteRecord(n)
                           /\ UNCHANGED <<up, auditFile, memory, runStart>>

Blocks == Len(wal) \div Parts

(* Defect: recovery stops after one record, as wal_recover.c does. *)
RecoverFirst ==
  IF Blocks = 0 THEN <<>> ELSE SubSeq(wal, 1, Parts)

(* The loop keeps the last block it could read in full. *)
recover_sender_state ==
  IF Blocks = 0 THEN <<>> ELSE SubSeq(wal, (Blocks - 1) * Parts + 1, Blocks * Parts)

-----------------------------------------------------------------------------
(* The audit file.                                                         *)
AuditRecord(event) ==
  LET previous == IF initialized THEN last_hash ELSE Zero
  IN  [previous |-> previous, hash |-> <<event, previous>>, n |-> hashed + 1, whole |-> TRUE]

(* Defect: the chain moves on only when the record was written. *)
HashIfWritten(rec, kept) == IF kept = "all" THEN rec.hash ELSE last_hash

HashAfter(rec, kept) == rec.hash

(* The chain moves on before the write, whose result is ignored: the       *)
(* record is kept whole, in part or not at all.  (When the file cannot be  *)
(* opened the call returns at once and changes nothing.)                   *)
audit_log_event(event, kept) ==
  LET rec == AuditRecord(event)
  IN  /\ up
      /\ Len(audit) < MaxEvents /\ hashed < MaxEvents
      /\ initialized' = TRUE
      /\ last_hash' = HashAfter(rec, kept)
      /\ audit' = IF kept = "none" THEN audit
                  ELSE Append(audit, [rec EXCEPT !.whole = (kept = "all")])
      /\ hashed' = hashed + 1
      /\ UNCHANGED <<up, senderFile, runStart>>

-----------------------------------------------------------------------------
(* The process ends.  Ending inside a write is that write, kept in part,   *)
(* and then this: what memory held is gone either way.                     *)
Crash == /\ up
         /\ up' = FALSE
         /\ UNCHANGED <<senderFile, auditFile, memory, runStart>>

(* The static variables start from zero; the files are as they were. *)
Restart == /\ ~up
           /\ up' = TRUE
           /\ last_hash' = Zero
           /\ initialized' = FALSE
           /\ hashed' = 0
           /\ runStart' = Len(audit)
           /\ UNCHANGED <<senderFile, audit>>

StorageNext ==
  \/ \E n \in 0 .. Parts : persist_sender_state(n)
  \/ \E event \in Event, kept \in {"all", "some", "none"} : audit_log_event(event, kept)
  \/ Crash
  \/ Restart
-----------------------------------------------------------------------------
(* The newest whole record begins where a reader of whole records looks.   *)
Aligned == newest.start % Parts = 0

(* What torn writes have left behind it is shorter than a record. *)
ShortTail == Len(wal) - (newest.start + Parts) < Parts

(* Whatever was torn and whenever the process died, recovery returns the   *)
(* newest sender state written whole, if earlier torn writes add up to     *)
(* whole records and the later ones to less than one.                      *)
RecoversTheNewest ==
  newest # None /\ Aligned /\ ShortTail => recover_sender_state = Record(newest.write)

(* In every other case it returns, as if it were one, a record put         *)
(* together from several writes: nothing marks where a record begins.      *)
TornWriteSpoilsRecovery ==
  newest # None /\ ~(Aligned /\ ShortTail) =>
    /\ recover_sender_state # <<>>
    /\ \A w \in 1 .. writes : recover_sender_state # Record(w)

(* A record that this run of the process has left whole in the audit file. *)
WholeRecord(i) == i \in (runStart + 1) .. Len(audit) /\ audit[i].whole

(* The chain of one run of the process gives away every record lost in     *)
(* writing, wholly or in part: of two whole records the later is linked to *)
(* the earlier exactly if no event was logged in between, and a record     *)
(* with no predecessor is the first event of its run.  (For a reader who   *)
(* can tell a fragment from a record; no length or mark in the file does.) *)
LinksTellLosses ==
  \A j \in DOMAIN audit : WholeRecord(j) =>
    /\ audit[j].previous = Zero <=> audit[j].n = 1
    /\ \A i \in 1 .. (j - 1) : WholeRecord(i) =>
         (audit[j].previous = audit[i].hash <=> audit[j].n = audit[i].n + 1)
=============================================================================
