-------------------------- MODULE VaultQueueReaders --------------------------
(***************************************************************************)
(* The readers of the upload queue: status (also the last step of          *)
(* drain_once) and export_archive of queue.rs and queue/archive.rs, beside *)
(* the producers and workers of VaultQueue.                                *)
(*                                                                         *)
(* Readers never take queue.lock.  What they read in one SQLite            *)
(* transaction or statement is consistent; validate_database, which every  *)
(* reader passes first, reads the two tables in two statements.            *)
(***************************************************************************)
EXTENDS VaultQueue, Sequences, SequencesExt

CONSTANT Batch  \* rows an export reads at a time

ASSUME BatchAssumption == Batch \in Nat \ {0}

VARIABLES
    order,   \* receipt_archive by rowid
    reader,  \* where the reader is, and for which call
    counted, \* active rows, as validate_database counted them
    report,  \* the archived ids of the last status
    mark,    \* the export's rowid watermark
    out      \* the ids exported so far

readerVars == <<reader, counted, report, mark, out>>
allVars == <<vars, order, readerVars>>

ReadersInit ==
    /\ Init
    /\ order = << >> /\ out = << >>
    /\ reader = [call |-> "status", at |-> "idle"]
    /\ counted = 0 /\ report = {} /\ mark = 0

At(place) == reader' = [call |-> reader.call, at |-> place]

\* The rowid of a new row is one more than the largest; the table never loses one.
RowidOrder == order' = order \o SetToSeq(archive' \ archive)

QueueStep == Next /\ RowidOrder /\ UNCHANGED readerVars

\* open_readonly: the active rows are counted ...
OpenReadonly(call) ==
    /\ reader.at \in {"idle", "published", "refused", "changed"}
    /\ store = "ready"
    /\ reader' = [call |-> call, at |-> "counted"]
    /\ counted' = Cardinality(active)
    /\ UNCHANGED <<vars, order, report, mark, out>>

\* ... then the archived ones, in a statement of its own; together they must
\* not exceed the archive.
ValidateRefused ==
    /\ reader.at = "counted"
    /\ counted + Cardinality(archive) > MaxArchive
    /\ At("refused")
    /\ UNCHANGED <<vars, order, counted, report, mark, out>>

Status ==
    /\ reader = [call |-> "status", at |-> "counted"]
    /\ counted + Cardinality(archive) <= MaxArchive
    /\ report' = archive
    /\ At("idle")
    /\ UNCHANGED <<vars, order, counted, mark, out>>

\* The watermark and the number of rows are read in one transaction.
ExportBegin ==
    /\ reader = [call |-> "export", at |-> "counted"]
    /\ counted + Cardinality(archive) <= MaxArchive
    /\ mark' = Len(order)
    /\ out' = << >>
    /\ At("export")
    /\ UNCHANGED <<vars, order, counted, report>>

\* Mutant: the batch is not bounded by the watermark.
ExportBatchUnbounded ==
    /\ reader.at = "export"
    /\ Len(out) < Len(order)
    /\ out' = out \o SubSeq(order, Len(out) + 1, Lesser(Len(out) + Batch, Len(order)))
    /\ UNCHANGED <<vars, order, reader, counted, report, mark>>

ExportBatch ==
    /\ reader.at = "export"
    /\ Len(out) < mark
    /\ out' = out \o SubSeq(order, Len(out) + 1, Lesser(Len(out) + Batch, mark))
    /\ UNCHANGED <<vars, order, reader, counted, report, mark>>

\* No row is left: the file is linked into place if it has as many rows as
\* the header says.
ExportEnd ==
    /\ reader.at = "export"
    /\ Len(out) >= mark
    /\ At(IF Len(out) = mark THEN "published" ELSE "changed")
    /\ UNCHANGED <<vars, order, counted, report, mark, out>>

\* The reader is killed; what it wrote was a temporary file.
ReaderCrash ==
    /\ reader.at \in {"counted", "export"}
    /\ Fault
    /\ At("idle")
    /\ UNCHANGED <<store, lock, meta, active, archive, row, file, used, pc, arg, lease,
                   remote, order, counted, report, mark, out>>

ReadersNext ==
    \/ QueueStep
    \/ \E call \in {"status", "export"} : OpenReadonly(call)
    \/ ValidateRefused \/ Status \/ ExportBegin \/ ExportBatch \/ ExportEnd \/ ReaderCrash

ReadersSpec == ReadersInit /\ [][ReadersNext]_allVars

\* The queue's processes are scheduled as before; a reader may stop anywhere.
FairReadersSpec == ReadersSpec /\ Fairness

-----------------------------------------------------------------------------
\* An export that was begun is published, never refused because items were
\* sent meanwhile, and holds each receipt of its watermark once, all of them
\* true, and every receipt a status had reported before it.
ExportComplete ==
    [][reader.at = "export" /\ reader'.at \notin {"export", "idle"} =>
          /\ reader'.at = "published"
          /\ IsInjective(out)
          /\ Range(out) = {order[n] : n \in 1 .. mark}
          /\ report \subseteq Range(out)
          /\ \A i \in Range(out) : <<meta.target, row[i].obj>> \in stored]_allVars
=============================================================================
