----------------------------- MODULE Accounting -----------------------------
(***************************************************************************)
(* The accounting bot (src/bots/jess-accounting-bot): receipts are         *)
(* uploaded in a chat, previewed, edited, and confirmed into a workbook;   *)
(* an SQLite audit log records what became of each; the last row can be    *)
(* taken back.                                                             *)
(*                                                                         *)
(* A handler runs to its end before the next one starts, and its work is   *)
(* synchronous; what interleaves are the users' messages, the buttons of   *)
(* all earlier messages (they are never removed, and none names a          *)
(* receipt), edits of the workbook by hand, restarts, replies that cannot  *)
(* be sent, and errors between the save of the workbook and the update of  *)
(* the log.  An audit id is the position of an entry in the log; a value stands for the five columns of *)
(* a row.  An input that is refused without a change of state (a file that *)
(* cannot be read, a text that is no date) is left out.                    *)
(***************************************************************************)
EXTENDS Integers, FiniteSets, Sequences

CONSTANTS
  Users, Values,
  None,         \* no receipt, no upload
  NoAmount,     \* the value of an extraction without an amount
  MaxUploads,   \* bound on the uploads
  MaxFaults,    \* bound on errors, restarts and receipts whose preview is not sent
  MaxHuman      \* bound on edits of the workbook by hand

Receipt == [id : Nat \ {0}, value : Values]

ASSUME AccountingAssumption ==
  /\ {MaxUploads, MaxFaults, MaxHuman} \subseteq Nat
  /\ None \notin Receipt \cup Values \cup {NoAmount} /\ NoAmount \notin Values

VARIABLES
  log,        \* audit_log: [user, status, value, row, exported] per entry
  sheet,      \* rows of the workbook: who wrote it (0: by hand) and what
  covered,    \* the row to which the Trial Balance formulas reach
  pending, queue, missing, editing,      \* UserSession, per user
  candidate, completed, dry,
  shown,      \* history: receipts, with their values, whose preview and buttons
              \* the user was sent
  unsent,     \* history: receipts of which the sending of a preview failed
  uploads, faults, human                 \* counters of the environment

sessions == <<pending, queue, missing, editing, candidate, completed, dry>>
counters == <<uploads, faults, human>>
replies  == <<shown, unsent>>
vars == <<log, sheet, covered, sessions, replies, counters>>

NoEntry == 0
Status  == {"pending", "previewed", "written", "cancelled", "undone"}

TypeOK ==
  /\ log \in Seq([user : Users, status : Status, value : Values, row : Nat, exported : BOOLEAN])
  /\ sheet \in Seq([by : Nat, value : Values])
  /\ covered \in Nat
  /\ pending \in [Users -> Receipt \cup {None}]
  /\ queue \in [Users -> Seq(Receipt)]
  /\ missing \in [Users -> Values \cup {NoAmount, None}]
  /\ editing \in [Users -> BOOLEAN]
  /\ candidate \in [Users -> Nat] /\ completed \in [Users -> Nat]
  /\ dry \in [Users -> BOOLEAN]
  /\ shown \in [Users -> SUBSET Receipt] /\ unsent \subseteq Nat \ {0}
  /\ uploads \in Nat /\ faults \in Nat /\ human \in Nat

NewSessions ==
  /\ pending' = [u \in Users |-> None] /\ queue' = [u \in Users |-> <<>>]
  /\ missing' = [u \in Users |-> None] /\ editing' = [u \in Users |-> FALSE]
  /\ candidate' = [u \in Users |-> NoEntry] /\ completed' = [u \in Users |-> NoEntry]
  /\ dry' = [u \in Users |-> FALSE]

\* A workbook kept by hand so far, whose formulas may lag behind its last row.
Init ==
  /\ log = <<>>
  /\ \E v \in Values : sheet = <<[by |-> 0, value |-> v]>>
  /\ covered \in {0, 1}
  /\ pending = [u \in Users |-> None] /\ queue = [u \in Users |-> <<>>]
  /\ missing = [u \in Users |-> None] /\ editing = [u \in Users |-> FALSE]
  /\ candidate = [u \in Users |-> NoEntry] /\ completed = [u \in Users |-> NoEntry]
  /\ dry = [u \in Users |-> FALSE]
  /\ shown = [u \in Users |-> {}] /\ unsent = {}
  /\ uploads = 0 /\ faults = 0 /\ human = 0

-----------------------------------------------------------------------------
(* The audit log and the workbook.                                         *)

CreateEntry(u, v) ==
  log' = Append(log, [user |-> u, status |-> "pending", value |-> v,
                      row |-> NoEntry, exported |-> FALSE])

UpdateEntry(id, status, v, row) ==
  log' = [log EXCEPT ![id].status = status, ![id].value = v, ![id].row = row]

\* Mutant of LastWritten: previews count.
LastPosted(u) == {i \in DOMAIN log : log[i].user = u /\ log[i].status \in {"written", "previewed"}}

LastWritten(u) ==
  {i \in DOMAIN log : log[i].user = u /\ log[i].status = "written"}

\* Mutant of ExpandFormulas: only a range that ends in the last row grows.
GrowsFromLastRow == IF covered = Len(sheet) THEN covered + 1 ELSE covered

\* _expand_formula_ranges: every range that ends before the new row reaches it.
ExpandFormulas == IF covered < Len(sheet) + 1 THEN Len(sheet) + 1 ELSE covered

\* append_transaction: the row after the last one; the file is saved.
AppendTransaction(p) ==
  /\ sheet' = Append(sheet, [by |-> p.id, value |-> p.value])
  /\ covered' = ExpandFormulas

\* Mutant of Undoable: the row is not compared with the log.
AnyLastRow(id) == sheet # <<>> /\ log[id].row = Len(sheet)

\* undo_last_transaction: the last row, and it still holds what was logged.
Undoable(id) ==
  /\ sheet # <<>> /\ log[id].row = Len(sheet)
  /\ sheet[Len(sheet)].value = log[id].value

ClearLastRow == sheet' = SubSeq(sheet, 1, Len(sheet) - 1)

-----------------------------------------------------------------------------
(* Uploads.                                                                *)

MayFail == faults + Cardinality(unsent) < MaxFaults

\* The preview of a receipt is sent with its buttons, or reply_text raises: what
\* the handler did stays done, and the user has not seen the receipt.
Show(u, p) ==
  \/ shown' = [shown EXCEPT ![u] = @ \cup {p}] /\ UNCHANGED unsent
  \/ /\ MayFail
     /\ unsent' = unsent \cup {p.id} /\ UNCHANGED shown

\* Mutant of QueueExtraction: the new receipt takes the place of the pending one.
ReplacesPending(u, v) ==
  /\ CreateEntry(u, v)
  /\ pending' = [pending EXCEPT ![u] = [id |-> Len(log) + 1, value |-> v]]
  /\ editing' = [editing EXCEPT ![u] = FALSE]
  /\ Show(u, [id |-> Len(log) + 1, value |-> v])
  /\ UNCHANGED queue

\* _queue_extraction: logged, then pending or behind the pending one.
QueueExtraction(u, v) ==
  LET p == [id |-> Len(log) + 1, value |-> v] IN
  /\ CreateEntry(u, v)
  /\ IF pending[u] = None
     THEN /\ pending' = [pending EXCEPT ![u] = p]
          /\ editing' = [editing EXCEPT ![u] = FALSE]
          /\ Show(u, p)
          /\ UNCHANGED queue
     ELSE /\ queue' = [queue EXCEPT ![u] = Append(@, p)]
          /\ UNCHANGED <<pending, editing, replies>>

\* process_upload with a date.
Upload(u, v) ==
  /\ uploads < MaxUploads /\ uploads' = uploads + 1
  /\ QueueExtraction(u, v)
  /\ UNCHANGED <<sheet, covered, missing, candidate, completed, dry, faults, human>>

\* process_upload without one: the user is asked for it.  A second such upload
\* takes the place of the first, of which nothing remains.
UploadWithoutDate(u, v) ==
  /\ uploads < MaxUploads /\ uploads' = uploads + 1
  /\ missing' = [missing EXCEPT ![u] = v]
  /\ UNCHANGED <<log, sheet, covered, pending, queue, editing, candidate, completed,
                 dry, replies, faults, human>>

\* Mutant of CompleteMissingDate: the amount is not asked for.
CompletesWithoutAmount(u) ==
  /\ missing[u] # None
  /\ QueueExtraction(u, missing[u])
  /\ missing' = [missing EXCEPT ![u] = None]
  /\ UNCHANGED <<sheet, covered, candidate, completed, dry, counters>>

\* complete_missing_date: while an upload waits for its date every text is
\* taken for one, an edit of the pending receipt included.  Without an amount
\* classify raises and the upload keeps waiting.
CompleteMissingDate(u) ==
  /\ missing[u] \in Values
  /\ QueueExtraction(u, missing[u])
  /\ missing' = [missing EXCEPT ![u] = None]
  /\ UNCHANGED <<sheet, covered, candidate, completed, dry, counters>>

-----------------------------------------------------------------------------
(* Buttons and texts.  Any keyboard sent so far serves: a press acts on    *)
(* the pending receipt, not on the one the keyboard was sent with.         *)

Pressable(u) == shown[u] # {} /\ pending[u] # None

BeginEdit(u) ==
  /\ Pressable(u) /\ ~editing[u]
  /\ editing' = [editing EXCEPT ![u] = TRUE]
  /\ UNCHANGED <<log, sheet, covered, pending, queue, missing, candidate, completed,
                 dry, replies, counters>>

ApplyEdit(u, v) ==
  /\ missing[u] = None /\ pending[u] # None /\ editing[u]
  /\ pending' = [pending EXCEPT ![u].value = v]
  /\ editing' = [editing EXCEPT ![u] = FALSE]
  /\ Show(u, [id |-> pending[u].id, value |-> v])
  /\ UNCHANGED <<log, sheet, covered, queue, missing, candidate, completed, dry, counters>>

\* Mutant of PromoteNextPending: the queue keeps the receipt promoted.
PromotesACopy(u) ==
  /\ pending' = [pending EXCEPT ![u] = IF queue[u] = <<>> THEN None ELSE Head(queue[u])]
  /\ UNCHANGED queue

PromoteNextPending(u) ==
  /\ pending' = [pending EXCEPT ![u] = IF queue[u] = <<>> THEN None ELSE Head(queue[u])]
  /\ queue' = [queue EXCEPT ![u] = IF @ = <<>> THEN @ ELSE Tail(@)]

\* Mutant of ShowNext: the reply only says that the receipt was recorded.
RepliesOnly(u) == UNCHANGED replies

\* The reply of a confirmation or a cancellation previews the next receipt.
ShowNext(u) == IF queue[u] = <<>> THEN UNCHANGED replies ELSE Show(u, Head(queue[u]))

\* Mutant of CancelPending: the next receipt is not promoted.
CancelForgetsQueue(u) ==
  /\ Pressable(u)
  /\ UpdateEntry(pending[u].id, "cancelled", log[pending[u].id].value, log[pending[u].id].row)
  /\ pending' = [pending EXCEPT ![u] = None]
  /\ editing' = [editing EXCEPT ![u] = FALSE]
  /\ UNCHANGED <<sheet, covered, queue, missing, candidate, completed, dry, replies, counters>>

CancelPending(u) ==
  /\ Pressable(u)
  /\ UpdateEntry(pending[u].id, "cancelled", log[pending[u].id].value, log[pending[u].id].row)
  /\ PromoteNextPending(u) /\ ShowNext(u)
  /\ editing' = [editing EXCEPT ![u] = FALSE]
  /\ UNCHANGED <<sheet, covered, missing, candidate, completed, dry, counters>>

\* confirm_pending after the write: the log, then the session.
Completed(u, status) ==
  /\ UpdateEntry(pending[u].id, status, pending[u].value, Len(sheet) + 1)
  /\ completed' = [completed EXCEPT ![u] = pending[u].id]
  /\ PromoteNextPending(u) /\ ShowNext(u)
  /\ editing' = [editing EXCEPT ![u] = FALSE]
  /\ UNCHANGED <<missing, candidate, dry, counters>>

\* In a dry run a copy of the workbook is written.
Preview(u) ==
  /\ Pressable(u) /\ dry[u]
  /\ Completed(u, "previewed")
  /\ UNCHANGED <<sheet, covered>>

Confirm(u) ==
  /\ Pressable(u) /\ ~dry[u]
  /\ AppendTransaction(pending[u])
  /\ Completed(u, "written")

\* The row is saved, then validate_workbook or SQLite raises: the receipt is
\* still pending, and its button still there.
ConfirmFails(u) ==
  /\ Pressable(u) /\ ~dry[u] /\ MayFail
  /\ AppendTransaction(pending[u])
  /\ faults' = faults + 1
  /\ UNCHANGED <<log, sessions, replies, uploads, human>>

SetDryRun(u) ==
  /\ dry' = [dry EXCEPT ![u] = ~@]
  /\ UNCHANGED <<log, sheet, covered, pending, queue, missing, editing, candidate,
                 completed, replies, counters>>

\* export_latest marks the last completed entry, whatever became of it since.
ExportLatest(u) ==
  /\ completed[u] # NoEntry /\ ~log[completed[u]].exported
  /\ log' = [log EXCEPT ![completed[u]].exported = TRUE]
  /\ UNCHANGED <<sheet, covered, sessions, replies, counters>>

-----------------------------------------------------------------------------
(* Undo.                                                                   *)

\* prepare_undo: the user's latest written entry.  "Undo cancelled" does not
\* clear the candidate, its button stays good.
PrepareUndo(u) ==
  /\ \E i \in LastWritten(u) : /\ \A j \in LastWritten(u) : j <= i
                               /\ candidate[u] # i
                               /\ candidate' = [candidate EXCEPT ![u] = i]
  /\ UNCHANGED <<log, sheet, covered, pending, queue, missing, editing, completed,
                 dry, replies, counters>>

ConfirmUndo(u) ==
  LET c == candidate[u] IN
  /\ c # NoEntry /\ Undoable(c)
  /\ ClearLastRow
  /\ UpdateEntry(c, "undone", log[c].value, log[c].row)
  /\ candidate' = [candidate EXCEPT ![u] = NoEntry]
  /\ UNCHANGED <<covered, pending, queue, missing, editing, completed, dry, replies, counters>>

\* The row is cleared and saved, then the update of the log raises.
UndoFails(u) ==
  /\ candidate[u] # NoEntry /\ Undoable(candidate[u]) /\ MayFail
  /\ ClearLastRow
  /\ faults' = faults + 1
  /\ UNCHANGED <<log, covered, sessions, replies, uploads, human>>

-----------------------------------------------------------------------------
(* Restarts, and the owner of the workbook.                                *)

\* The sessions are lost, wherever the process was killed: also between the
\* save of the workbook and the update of the log.
Restart ==
  /\ MayFail /\ faults' = faults + 1
  /\ NewSessions
  /\ \/ UNCHANGED <<sheet, covered>>
     \/ \E u \in Users : Pressable(u) /\ ~dry[u] /\ AppendTransaction(pending[u])
     \/ \E u \in Users : /\ candidate[u] # NoEntry /\ Undoable(candidate[u])
                         /\ ClearLastRow /\ UNCHANGED covered
  /\ UNCHANGED <<log, replies, uploads, human>>

\* A row is added or the last one overwritten in a spreadsheet program.
HumanEdit(v) ==
  /\ human < MaxHuman /\ human' = human + 1
  /\ \/ sheet' = Append(sheet, [by |-> 0, value |-> v])
     \/ /\ sheet # <<>> /\ sheet[Len(sheet)].value # v
        /\ sheet' = [sheet EXCEPT ![Len(sheet)] = [by |-> 0, value |-> v]]
  /\ UNCHANGED <<log, covered, sessions, replies, uploads, faults>>

Next ==
  \/ \E u \in Users :
       \/ \E v \in Values : Upload(u, v) \/ ApplyEdit(u, v)
       \/ \E v \in Values \cup {NoAmount} : UploadWithoutDate(u, v)
       \/ CompleteMissingDate(u) \/ BeginEdit(u) \/ CancelPending(u)
       \/ Preview(u) \/ Confirm(u) \/ ConfirmFails(u)
       \/ SetDryRun(u) \/ ExportLatest(u)
       \/ PrepareUndo(u) \/ ConfirmUndo(u) \/ UndoFails(u)
  \/ Restart
  \/ \E v \in Values : HumanEdit(v)

Spec == Init /\ [][Next]_vars
-----------------------------------------------------------------------------
(* Properties.                                                             *)

LoggedAs(status) == {i \in DOMAIN log : log[i].status = status}

\* Entries the log calls written whose row is not in the sheet, and rows of
\* the bot the log knows nothing of.
Missing == {i \in DOMAIN log : log[i].status = "written" /\
              ~(log[i].row \in DOMAIN sheet /\
                sheet[log[i].row] = [by |-> i, value |-> log[i].value])}
Unlogged == {r \in DOMAIN sheet : sheet[r].by # 0 /\
               ~(sheet[r].by \in DOMAIN log /\ log[sheet[r].by].status = "written"
                 /\ log[sheet[r].by].row = r)}

\* The workbook and the audit log agree up to one difference for each error,
\* kill or edit by hand that came between them, however buttons were pressed
\* (confirm_pending, confirm_undo): no receipt is posted twice or lost.
DifferencesExplained == Cardinality(Missing) + Cardinality(Unlogged) <= faults + human

\* Until a restart an entry is pending in the log exactly as long as its
\* user's session holds it, in one place.
HeldOnce ==
  faults = 0 =>
    \A i \in DOMAIN log :
      (log[i].status = "pending") <=>
        LET u == log[i].user
            inQueue == {k \in DOMAIN queue[u] : queue[u][k].id = i}
        IN Cardinality(inQueue) + (IF pending[u] # None /\ pending[u].id = i THEN 1 ELSE 0) = 1

\* A queued receipt always stands behind a pending one: the queue is only
\* looked at when the pending receipt is confirmed or cancelled.
NotStranded == \A u \in Users : queue[u] # <<>> => pending[u] # None

\* A receipt is posted or previewed only as a preview showed it, although the
\* button pressed may belong to another receipt; unless the sending of its own
\* preview failed: it is pending by then, and an old button posts it unseen
\* (telegram_handlers.py:278, 294, 317, 329).
PostedWasShown ==
  \A i \in DOMAIN log : log[i].status \in {"written", "previewed"} =>
    [id |-> i, value |-> log[i].value] \in shown[log[i].user] \/ i \in unsent

\* Refuted: the exception left out (README.md:11 of the bot, explicit confirmation).
NothingPostedUnseen ==
  \A i \in DOMAIN log : log[i].status \in {"written", "previewed"} =>
    \E p \in shown[log[i].user] : p.id = i

\* Every row the bot wrote is inside the ranges of the Trial Balance formulas,
\* also when they lagged behind and after undos and edits by hand.
FormulasCover == \A r \in DOMAIN sheet : sheet[r].by # 0 => r <= covered

\* The workbook, its totals and the audit log agree.
BooksAgree == DifferencesExplained /\ FormulasCover

\* A row taken out of the workbook is the one the undone entry wrote, unless an
\* earlier undo or confirmation failed half-way; one entered by hand only where
\* it had overwritten that row and then been given its content again.
UndoTakesOwnRow ==
  [][Len(sheet') < Len(sheet) /\ faults' = 0 =>
       LET r == sheet[Len(sheet)] IN
       \E i \in LoggedAs("written") :
         /\ log'[i].status = "undone" /\ log[i].row = Len(sheet) /\ log[i].value = r.value
         /\ r.by = i \/ (r.by = 0 /\ human > 1)]_vars

After == [pending |-> Status, previewed |-> {"previewed"}, cancelled |-> {"cancelled"},
          written |-> {"written", "undone"}, undone |-> {"undone"}]

\* What became of a receipt stays: a cancelled or previewed one is not posted
\* later, a written one only undone, and only completed ones are exported.
LogMovesForward ==
  [][\A i \in DOMAIN log :
       /\ log'[i].status \in After[log[i].status] \ (IF log[i].status = "pending" THEN {"undone"} ELSE {})
       /\ log[i].status # "pending" => log'[i].value = log[i].value /\ log'[i].row = log[i].row
       /\ log'[i].exported => log'[i].status \notin {"pending", "cancelled"}]_log

\* The receipts that wait are held once each, behind one that is pending, and
\* no receipt is decided on before it was shown, but where its preview could not be
\* sent.
SessionsSound == TypeOK /\ HeldOnce /\ NotStranded /\ PostedWasShown
=============================================================================
