----------------------------- MODULE AuditTrail -----------------------------
(***************************************************************************)
(* What a pipeline run leaves on disk, in the order of run_pipeline.main:  *)
(* the trained model and the decision log, which every run overwrites      *)
(* (detect/src/detector.py, decision_log.py), the append-only trail        *)
(* (audit_trail.py) and the dashboard (dashboard_builder.py).              *)
(*                                                                         *)
(* append_many writes through a buffer: the lines of a batch reach the     *)
(* file in chunks that end anywhere.  A line is three pieces here, two of  *)
(* its JSON text and its newline, and a chunk is any number of them.       *)
(* Several runs may write at once, and a run may be killed at any step.    *)
(* The other files are named after the run that wrote them; 0 is a file    *)
(* that is missing, or that was opened for writing and not filled: readers *)
(* raise at both.                                                          *)
(***************************************************************************)
EXTENDS Naturals, SequencesExt

CONSTANTS
    Writers,       \* processes that run the pipeline, or append a batch
    RunBatches,    \* the ids each pipeline run signs, in the order of the runs
    Batches,       \* what append_many and append_decision may be given directly
    NoId,          \* an entry without decision.record_id
    CrashAllowed,  \* whether a run may be killed
    MaxAppends     \* bound: the number of batches appended directly

AllBatches == Batches \cup Range(RunBatches)

\* sign_record gives every decision of every run an id of its own.
ASSUME AuditAssumption ==
    /\ RunBatches \in Seq(Range(RunBatches))
    /\ \A b \in AllBatches : b \in Seq(Range(b))
    /\ CrashAllowed \in BOOLEAN
    /\ MaxAppends \in Nat
    /\ \A i, j \in 1..Len(RunBatches) : i # j =>
          Range(RunBatches[i]) \cap Range(RunBatches[j]) = {}
    /\ \A i \in 1..Len(RunBatches) :
          NoId \notin Range(RunBatches[i]) /\ IsInjective(RunBatches[i])

VARIABLES
    trail,      \* audit/decisions.jsonl: pieces of lines, in file order
    model,      \* models/detector.pkl: the run it was trained in
    decisions,  \* decisions/pipeline_decisions.json: the run
    dashboard,  \* web/data/dashboard.json: the run
    step,       \* where each writer stands in main
    number,     \* the run each writer is, 0 if it appends directly
    entries,    \* the batch each writer works on
    buffer,     \* pieces written to the file object and not flushed yet
    returned,   \* history: ids of the entries a finished append_many was given
    runs,       \* pipeline runs that got this far
    appends     \* batches appended directly so far

diskVars == <<trail, model, decisions, dashboard>>
vars == <<diskVars, step, number, entries, buffer, returned, runs, appends>>

Ids == (UNION {Range(b) : b \in AllBatches}) \ {NoId}
Pieces == [record_id : Ids, part : {"head", "tail", "newline"}]

TypeOK ==
    /\ trail \in Seq(Pieces)
    /\ model \in 0..Len(RunBatches)
    /\ decisions \in 0..Len(RunBatches)
    /\ dashboard \in 0..Len(RunBatches)
    /\ step \in [Writers -> {"idle", "save_model", "write_log", "known_ids", "write", "build"}]
    /\ number \in [Writers -> 0..Len(RunBatches)]
    /\ entries \in [Writers -> AllBatches \cup {<<>>}]
    /\ buffer \in [Writers -> Seq(Pieces)]
    /\ returned \subseteq Ids
    /\ runs \in 0..Len(RunBatches)
    /\ appends \in 0..MaxAppends

Init ==
    /\ trail = <<>> /\ model = 0 /\ decisions = 0 /\ dashboard = 0
    /\ step = [w \in Writers |-> "idle"]
    /\ number = [w \in Writers |-> 0]
    /\ entries = [w \in Writers |-> <<>>]
    /\ buffer = [w \in Writers |-> <<>>]
    /\ returned = {} /\ runs = 0 /\ appends = 0

-----------------------------------------------------------------------------
IsHead(i) == trail[i].part = "head"

\* Heads whose tail follows: a JSON text that is whole.
Text(i) == /\ IsHead(i)
           /\ i < Len(trail)
           /\ trail[i + 1] = [trail[i] EXCEPT !.part = "tail"]

StartsLine(i) == i > 1 => trail[i - 1].part = "newline"
EndsLine(i) == i < Len(trail) => trail[i + 1].part = "newline"

\* Heads of lines that are one JSON text: json.loads succeeds.  The last line
\* of the file needs no newline for that.
Row(i) == StartsLine(i) /\ Text(i) /\ EndsLine(i + 1)

\* A reader gets through the file only if every line is a row, or empty;
\* json.loads raises at the first one that is not, in known_ids, get_decision,
\* read_all and so in verify_all.
Readable ==
    \A i \in 1..Len(trail) :
        CASE trail[i].part = "head"    -> Row(i)
          [] trail[i].part = "tail"    -> i > 1 /\ Row(i - 1)
          [] trail[i].part = "newline" -> TRUE

known_ids == {trail[i].record_id : i \in 1..Len(trail)}

\* Mutant: an entry without a record id is written like any other.
Recorded_Any(b) == b

\* Entries up to the first without a record id: there _record_id raises, and
\* leaving the with block still flushes what was written before.
Recorded(b) ==
    LET n == SelectInSeq(b, LAMBDA r : r = NoId) IN
    IF n = 0 THEN b ELSE SubSeq(b, 1, n - 1)

\* Mutant: duplicates are looked for in the batch only, not in the file.
Fresh_BatchOnly(b, known) ==
    FoldLeft(LAMBDA done, r : IF r \in Range(done)
                                THEN done ELSE Append(done, r),
             <<>>, Recorded(b))

\* The loop of append_many: entries that are neither known nor repeated.
Fresh(b, known) ==
    FoldLeft(LAMBDA done, r : IF r \in known \cup Range(done)
                                THEN done ELSE Append(done, r),
             <<>>, Recorded(b))

\* A line for each id, in three pieces.
Lines(ids) ==
    [k \in 1..3 * Len(ids) |->
        [record_id |-> ids[(k + 2) \div 3],
         part      |-> CASE k % 3 = 1 -> "head" [] k % 3 = 2 -> "tail" [] OTHER -> "newline"]]

Goto(w, label) == step' = [step EXCEPT ![w] = label]

-----------------------------------------------------------------------------
\* Mutant: nothing is trained where a model can be loaded.
BeginRun_Reuse(w) ==
    /\ step[w] = "idle"
    /\ runs < Len(RunBatches)
    /\ runs' = runs + 1
    /\ number' = [number EXCEPT ![w] = runs + 1]
    /\ entries' = [entries EXCEPT ![w] = RunBatches[runs + 1]]
    /\ Goto(w, IF model = 0 THEN "save_model" ELSE "write_log")
    /\ UNCHANGED <<diskVars, buffer, returned, appends>>

\* main trains a model and save_model opens the file of the one before.
BeginRun(w) ==
    /\ step[w] = "idle"
    /\ runs < Len(RunBatches)
    /\ runs' = runs + 1
    /\ number' = [number EXCEPT ![w] = runs + 1]
    /\ entries' = [entries EXCEPT ![w] = RunBatches[runs + 1]]
    /\ model' = 0
    /\ Goto(w, "save_model")
    /\ UNCHANGED <<trail, decisions, dashboard, buffer, returned, appends>>

\* The file is filled; main goes on and signs its decisions.
SaveModel(w) ==
    /\ step[w] = "save_model"
    /\ model' = number[w]
    /\ Goto(w, "write_log")
    /\ UNCHANGED <<trail, decisions, dashboard, number, entries, buffer, returned, runs,
                   appends>>

\* Mutant: the dashboard is built next to the decision log, before the append.
WriteLog_BuildFirst(w) ==
    /\ step[w] = "write_log"
    /\ decisions' = number[w]
    /\ dashboard' = number[w]
    /\ Goto(w, "known_ids")
    /\ UNCHANGED <<trail, model, number, entries, buffer, returned, runs, appends>>

\* write_log replaces the decision log.
WriteLog(w) ==
    /\ step[w] = "write_log"
    /\ decisions' = number[w]
    /\ Goto(w, "known_ids")
    /\ UNCHANGED <<trail, model, dashboard, number, entries, buffer, returned, runs, appends>>

\* append_many or append_decision is called directly, perhaps as a replay.
AppendBatch(w) ==
    /\ step[w] = "idle"
    /\ appends < MaxAppends
    /\ appends' = appends + 1
    /\ \E b \in Batches : entries' = [entries EXCEPT ![w] = b]
    /\ Goto(w, "known_ids")
    /\ UNCHANGED <<diskVars, number, buffer, returned, runs>>

\* Mutant: known_ids skips the lines it cannot parse.
ReadKnownIds_Lenient(w) ==
    /\ step[w] = "known_ids"
    /\ buffer' = [buffer EXCEPT ![w] = Lines(Fresh(entries[w],
                        {trail[i].record_id : i \in {j \in 1..Len(trail) : Row(j)}}))]
    /\ Goto(w, "write")
    /\ UNCHANGED <<diskVars, number, entries, returned, runs, appends>>

\* append_many reads the known ids once and fills the buffer from them.
ReadKnownIds(w) ==
    /\ step[w] = "known_ids"
    /\ Readable
    /\ buffer' = [buffer EXCEPT ![w] = Lines(Fresh(entries[w], known_ids))]
    /\ Goto(w, "write")
    /\ UNCHANGED <<diskVars, number, entries, returned, runs, appends>>

Stop(w) ==
    /\ Goto(w, "idle")
    /\ number' = [number EXCEPT ![w] = 0]
    /\ entries' = [entries EXCEPT ![w] = <<>>]
    /\ buffer' = [buffer EXCEPT ![w] = <<>>]
    /\ UNCHANGED <<runs, appends>>

\* json.loads raises in known_ids: the run ends with a traceback.
ReadFails(w) ==
    /\ step[w] = "known_ids"
    /\ ~Readable
    /\ Stop(w)
    /\ UNCHANGED <<diskVars, returned>>

\* The buffer is full: a chunk goes to the file and the rest stays.
FlushChunk(w) ==
    /\ step[w] = "write"
    /\ \E n \in 1..Len(buffer[w]) - 1 :
          /\ trail' = trail \o SubSeq(buffer[w], 1, n)
          /\ buffer' = [buffer EXCEPT ![w] = SubSeq(@, n + 1, Len(@))]
    /\ UNCHANGED <<model, decisions, dashboard, step, number, entries, returned, runs, appends>>

\* Mutant: the file was opened to be written, not to be appended to.
CloseTrail_Rewrite(w) ==
    /\ step[w] = "write"
    /\ NoId \notin Range(entries[w])
    /\ trail' = IF buffer[w] = <<>> THEN trail ELSE buffer[w]
    /\ buffer' = [buffer EXCEPT ![w] = <<>>]
    /\ returned' = returned \cup Range(entries[w])
    /\ Goto(w, "build")
    /\ UNCHANGED <<model, decisions, dashboard, number, entries, runs, appends>>

\* The file is closed and append_many returns.
CloseTrail(w) ==
    /\ step[w] = "write"
    /\ NoId \notin Range(entries[w])
    /\ trail' = trail \o buffer[w]
    /\ buffer' = [buffer EXCEPT ![w] = <<>>]
    /\ returned' = returned \cup Range(entries[w])
    /\ Goto(w, "build")
    /\ UNCHANGED <<model, decisions, dashboard, number, entries, runs, appends>>

\* An entry has no record id: ValueError, after the file is closed.
CloseAndRaise(w) ==
    /\ step[w] = "write"
    /\ NoId \in Range(entries[w])
    /\ trail' = trail \o buffer[w]
    /\ Stop(w)
    /\ UNCHANGED <<model, decisions, dashboard, returned>>

\* build writes the dashboard from the entries of this run.
BuildDashboard(w) ==
    /\ step[w] = "build"
    /\ number[w] # 0
    /\ dashboard' = number[w]
    /\ Stop(w)
    /\ UNCHANGED <<trail, model, decisions, returned>>

\* A direct append has nothing to do after append_many returned.
Return(w) ==
    /\ step[w] = "build"
    /\ number[w] = 0
    /\ Stop(w)
    /\ UNCHANGED <<diskVars, returned>>

\* The run is killed, perhaps while it fills the decision log or the dashboard;
\* or it raises, as load_log_summary does at a torn call log before the build.
Crash(w) ==
    /\ CrashAllowed
    /\ step[w] # "idle"
    /\ decisions' \in IF step[w] = "write_log" THEN {decisions, 0} ELSE {decisions}
    /\ dashboard' \in IF step[w] = "build" /\ number[w] # 0 THEN {dashboard, 0}
                                                          ELSE {dashboard}
    /\ Stop(w)
    /\ UNCHANGED <<trail, model, returned>>

\* Nobody is running: nothing happens until the next run.
Rest ==
    /\ \A w \in Writers : step[w] = "idle"
    /\ UNCHANGED vars

Write(w) ==
    \/ SaveModel(w) \/ WriteLog(w)
    \/ ReadKnownIds(w) \/ ReadFails(w)
    \/ FlushChunk(w) \/ CloseTrail(w) \/ CloseAndRaise(w)
    \/ BuildDashboard(w) \/ Return(w)

Next ==
    \/ \E w \in Writers : BeginRun(w) \/ AppendBatch(w) \/ Write(w) \/ Crash(w)
    \/ Rest

Spec == Init /\ [][Next]_vars

-----------------------------------------------------------------------------
\* "The same record_id is never appended twice" (AuditTrail docstring): true
\* of one writer, across replays and crashes at any chunk; false of two.
NoDuplicates ==
    \A i, j \in 1..Len(trail) : trail[i] = trail[j] => i = j

\* What kills can do to the file of one writer, since no run appends to a trail
\* it could not read: only the last text of the file is torn, and at most one
\* text shares the line of the one before it.  That is when a kill fell between
\* a text and its newline; known_ids accepts such a line, and the next append
\* goes on in it.  So all texts but two at most are lines of their own.
DamageIsBounded ==
    /\ \A i \in 1..Len(trail) - 1 : IsHead(i) => Text(i)
    /\ \A i, j \in {k \in 1..Len(trail) : IsHead(k) /\ ~StartsLine(k)} : i = j

\* The dashboard never shows a decision that is not durably in the trail: it
\* is written after append_many returned.
DashboardIsBacked ==
    dashboard # 0 => Range(RunBatches[dashboard]) \subseteq returned

\* The texts of the trail that are whole, in file order.
StoredIds ==
    LET heads == {i \in 1..Len(trail) : Text(i)}
        kth(k) == CHOOSE i \in heads : Cardinality({j \in heads : j <= i}) = k
    IN  [k \in 1..Cardinality(heads) |-> trail[kth(k)].record_id]

\* The texts of the trail, with what append_many promised by returning.
Promise == INSTANCE DecisionTrail WITH stored <- StoredIds, promised <- returned

\* One writer's file, with its buffer, its chunks and what kills tear, keeps the
\* texts of the decisions as the documents promise: each text once, in the order
\* of the appends, and what append_many was given is there when it returns and
\* for ever after, whatever runs and kills come.  That a reader of this module
\* gets to it is more than that: see ReturnedIsReadable.
ImplementsTrail == Promise!Spec

\* "Decisions are durable" (CLAIMS.md): what was appended can be read back.
\* False once a run was killed between two chunks: inside a text, no reader gets
\* past the torn line; between a text and its newline, none gets past the line
\* that the next append makes of two.  Not even while nobody is writing.
ReturnedIsReadable ==
    /\ returned # {}
    /\ \A w \in Writers : step[w] = "idle"
    => Readable
=============================================================================
