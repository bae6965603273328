------------------------------- MODULE Bridge -------------------------------
(***************************************************************************)
(* The bridge between group files and an OpenList netdisk, and its ledger, *)
(* the table archive_map.                                                  *)
(*                                                                         *)
(* bridge_out looks for a row, asks OpenList for an offline download and   *)
(* writes the row at the end.  The row then follows the OpenList task by   *)
(* polling: the poll loop (interval > 0) or the bounded sweep and the      *)
(* status reads (interval = 0), and the recovery at start-up.  bridge_in   *)
(* uploads a link, or falls back to a fetch task whose end is an event of  *)
(* the queue.                                                              *)
(*                                                                         *)
(* Every step ends at an await.  The two task lists are asked for in one   *)
(* step; a repair looks the row up, asks, and writes in three.  A file is  *)
(* known by the task that stored it; a directory is that of one group.     *)
(***************************************************************************)
EXTENDS Integers, FiniteSets

CONSTANTS
  Resources, \* group files
  Small,     \* those of one size; the others are of another
  OutOps,    \* bridge_out operations, each for one resource
  Forced,    \* those with force set
  InOps,     \* bridge_in operations of one group; each has a path of its own
  Scenarios, \* the interval's mode, the resource of each bridge_out, and the
             \* operations that are called, each a way to start (a bound)
  MaxTrouble \* bound on what disturbs the transfers: cancels, retries, removals,
             \* restarts, tasks that look odd or leave OpenList's lists

ASSUME BridgeAssumption ==
  /\ IsFiniteSet(Resources) /\ Small \subseteq Resources
  /\ Forced \subseteq OutOps
  /\ Scenarios \subseteq [auto : BOOLEAN, subject : [OutOps -> Resources],
                           calls : SUBSET (OutOps \cup InOps)]
  /\ MaxTrouble \in Nat /\ "none" \notin OutOps \cup InOps
  /\ OutOps \cap (Resources \X {"plain", "suffixed"}) = {} \* a task's name is no path

(* The OpenList task that an operation submits goes by the operation's name;
   so does the fetch task of a bridge_in. *)
Tasks == OutOps
Kinds == {"plain", "suffixed"}       \* intended names: the file's, or one made unique
Paths == Resources \X Kinds
Names == Tasks \cup Paths            \* a file stored under its URL's tail goes by its task
Watchers == {"loop", "reader", "recovery"}

VARIABLES
  subject,  \* the resource of each bridge_out
  auto,     \* openlist_poll_interval_sec > 0
  row,      \* archive_map, direction out, one row per resource
  at,       \* where each bridge_out is
  goal,     \* the remote path it chose
  ext,      \* the state of each OpenList task
  file,     \* the netdisk directory: the task that stored the file of a name
  indexed,  \* resources that still have a row in the index
  watch,    \* where each watcher is
  rows,     \* the rows a watcher has read and not yet judged
  lists,    \* the tasks it saw in OpenList's lists, with their states then
  verdict,  \* the row and the state it is about to write
  misses,   \* the poll loop's backoff count of a task, modulo 3
  flips,    \* tasks cancelled or retried remotely, the row not yet flipped
  inAt,     \* where each bridge_in is
  inRow,    \* archive_map, direction in: the one row of the group
  fetch,    \* the fetch task of a bridge_in
  tracked,  \* _in_task_ids
  events,   \* the ends of fetch tasks that the ledger consumer has not read
  consumer, \* whether the ledger consumer is subscribed
  capable,  \* _url_upload_capable, TRUE also before the first probe
  landed,   \* history: the tasks that stored their file
  delivered,\* history: the bridge_in operations whose file reached the group
  trouble,  \* disturbances so far
  restarted \* history: the plugin was restarted

outVars == <<row, at, goal>>
farVars == <<ext, file, landed>>
watchVars == <<watch, rows, lists, verdict, misses>>
inVars  == <<inAt, inRow, fetch, tracked, events, consumer, capable, delivered>>
envVars == <<subject, auto, indexed, trouble, restarted>>
vars == <<outVars, farVars, watchVars, inVars, envVars, flips>>

Actionable == {"pending", "running", "unknown"}
RowStates == Actionable \cup {"done", "failed"}
RowOf(r) == [res : {r}, task : Tasks, path : {r} \X Kinds, state : RowStates]
NoRow(r) == [res |-> r, task |-> "none", path |-> <<r, "plain">>, state |-> "none"]
NoLists == [t \in Tasks |-> "missing"]
NoVerdict == [row |-> NoRow("none"), state |-> "none"]

RowsToWatch == {row[r] : r \in {q \in Resources : row[q].state \in Actionable}}
InPending == inRow.state \in {"pending", "running"}

Init ==
  /\ \E c \in Scenarios :
       /\ subject = c.subject /\ auto = c.auto
       /\ at = [o \in OutOps |-> IF o \in c.calls THEN "new" ELSE "end"]
       /\ inAt = [i \in InOps |-> IF i \in c.calls THEN "new" ELSE "end"]
  /\ row = [r \in Resources |-> NoRow(r)]
  /\ goal = [o \in OutOps |-> <<subject[o], "plain">>]
  /\ ext = [t \in Tasks |-> "none"]
  /\ file = [n \in Names |-> "none"]
  /\ indexed = Resources
  /\ watch = [w \in Watchers |-> "off"]
  /\ rows = [w \in Watchers |-> {}]
  /\ lists = [w \in Watchers |-> NoLists]
  /\ verdict = [w \in Watchers |-> NoVerdict]
  /\ misses = [t \in Tasks |-> 0]
  /\ flips = {}
  /\ inRow = [task |-> "none", op |-> "none", state |-> "none"]
  /\ fetch = [i \in InOps |-> "none"]
  /\ tracked = {} /\ events = {} /\ consumer = FALSE /\ capable = TRUE
  /\ landed = {} /\ delivered = {}
  /\ trouble = 0 /\ restarted = FALSE

(* The row of a submission replaces what the resource had; a watcher updates it by
   its key, whatever transfer it is of by then, and a control by its task. *)
Recorded(o) == [res |-> subject[o], task |-> o, path |-> goal[o], state |-> "pending"]
ByKey(a, s) == IF row[a.res].state = "none" THEN row ELSE [row EXCEPT ![a.res].state = s]
ByTask(t, s) == [r \in Resources |-> IF row[r].task = t THEN [row[r] EXCEPT !.state = s] ELSE row[r]]

(* The name that a transfer is to get: unique when the file's own is taken. *)
Intended(r) == IF file[<<r, "plain">>] = "none" THEN <<r, "plain">> ELSE <<r, "suffixed">>

(* _ensure_poll_task: arm the loop or the sweep unless it is running. *)
Armed(w) == IF w["loop"] = "off" THEN [w EXCEPT !["loop"] = "start"] ELSE w

(* from_external, on the states OpenList shows in its two lists. *)
FromExternal(e) == CASE e = "undone"    -> "running"
                     [] e = "succeeded" -> "done"
                     [] e = "odd"       -> "unknown"
                     [] OTHER           -> "failed"
Disturbs == trouble < MaxTrouble /\ trouble' = trouble + 1
Listed(t) == IF ext[t] \in {"none", "cleared"} THEN "missing" ELSE ext[t]

-----------------------------------------------------------------------------
(* Wrong forms of definitions below: slips this code could have made. *)

Judgement_TrustsRow(w, a, seen) == IF seen = "missing" THEN "done" ELSE FromExternal(seen)

SizeMatches_Any(n, r) == file[n] # "none"

LoopSleeps_NeedsBoth ==
  /\ watch["loop"] = "start"
  /\ rows' = [rows EXCEPT !["loop"] = RowsToWatch]
  /\ watch' = [watch EXCEPT !["loop"] = IF RowsToWatch = {} \/ ~(auto /\ InPending)
                                          THEN "off" ELSE "ask"]
  /\ UNCHANGED <<outVars, farVars, lists, verdict, misses, inVars, envVars, flips>>

-----------------------------------------------------------------------------
(* bridge_out: api_bridge_transfer and submit_out queue it and arm the watcher;
   the handler runs later. *)
SubmitOut(o) ==
  /\ at[o] = "new"
  /\ at' = [at EXCEPT ![o] = "queued"]
  /\ watch' = Armed(watch)
  /\ UNCHANGED <<row, goal, farVars, rows, lists, verdict, misses, inVars, envVars, flips>>

(* Steps 1 to 3: a row that is not done stops an operation without force; a
   row that is done does so when its file is still there. *)
OutLooks(o) ==
  LET r == subject[o] IN
  /\ at[o] = "queued"
  /\ at' = [at EXCEPT ![o] = IF r \notin indexed THEN "end"
                             ELSE IF row[r].state = "none" \/ o \in Forced THEN "submit"
                             ELSE IF row[r].state = "done" THEN "verify"
                             ELSE "end"]
  /\ goal' = IF row[r].state = "none" THEN goal ELSE [goal EXCEPT ![o] = row[r].path]
  /\ UNCHANGED <<row, farVars, watchVars, inVars, envVars, flips>>

OutVerifies(o) ==
  LET r == subject[o] IN
  /\ at[o] = "verify"
  /\ IF file[goal[o]] = "none"
       THEN at' = [at EXCEPT ![o] = "submit"] /\ row' = [row EXCEPT ![r] = NoRow(r)]
       ELSE at' = [at EXCEPT ![o] = "end"] /\ UNCHANGED row
  /\ UNCHANGED <<goal, farVars, watchVars, inVars, envVars, flips>>

(* Steps 4 to 7: a path that is taken gets a suffix; OpenList may refuse. *)
OutSubmits(o) ==
  /\ at[o] = "submit"
  /\ goal' = [goal EXCEPT ![o] = Intended(subject[o])]
  /\ \/ at' = [at EXCEPT ![o] = "record"] /\ ext' = [ext EXCEPT ![o] = "undone"]
     \/ at' = [at EXCEPT ![o] = "end"] /\ UNCHANGED ext
  /\ UNCHANGED <<row, file, landed, watchVars, inVars, envVars, flips>>

OutRecords(o) ==
  LET r == subject[o] IN
  /\ at[o] = "record"
  /\ at' = [at EXCEPT ![o] = "end"]
  /\ row' = [row EXCEPT ![r] = Recorded(o)]
  /\ UNCHANGED <<goal, farVars, watchVars, inVars, envVars, flips>>

-----------------------------------------------------------------------------
(* OpenList: a task ends, may look odd while it ends, and may leave the lists.
   A file is stored under its name or under the tail of its URL. *)
RemoteStores(t) ==
  /\ ext[t] \in {"undone", "odd"}
  /\ ext' = [ext EXCEPT ![t] = "succeeded"]
  /\ \E n \in {t, <<subject[t], "plain">>} : file' = [file EXCEPT ![n] = t]
  /\ landed' = landed \cup {t}
  /\ UNCHANGED <<outVars, watchVars, inVars, envVars, flips>>

RemoteFails(t) ==
  /\ ext[t] \in {"undone", "odd"} /\ ext' = [ext EXCEPT ![t] = "failed"]
  /\ UNCHANGED <<file, landed, outVars, watchVars, inVars, envVars, flips>>

RemoteHides(t) ==
  /\ Disturbs
  /\ \/ ext[t] = "undone" /\ ext' = [ext EXCEPT ![t] = "odd"]
     \/ ext[t] \in {"succeeded", "failed", "canceled"} /\ ext' = [ext EXCEPT ![t] = "cleared"]
  /\ UNCHANGED <<file, landed, outVars, watchVars, inVars, subject, auto, indexed, restarted, flips>>

(* The user removes a file from the netdisk, or its resource from the index. *)
UserRemoves ==
  /\ Disturbs
  /\ \/ \E n \in Names : file[n] # "none" /\ file' = [file EXCEPT ![n] = "none"]
          /\ UNCHANGED indexed
     \/ \E r \in indexed : indexed' = indexed \ {r} /\ UNCHANGED file
  /\ UNCHANGED <<ext, landed, outVars, watchVars, inVars, subject, auto, restarted, flips>>

(* cancel and retry: OpenList first, then the row by its task, then the watcher. *)
Control(t) ==
  /\ Disturbs
  /\ \E r \in Resources : row[r].state # "none" /\ row[r].task = t
  /\ \/ ext[t] \in {"undone", "odd"} /\ ext' = [ext EXCEPT ![t] = "canceled"]
     \/ ext[t] \in {"failed", "canceled"} /\ ext' = [ext EXCEPT ![t] = "undone"]
  /\ flips' = flips \cup {t}
  /\ UNCHANGED <<file, landed, outVars, watchVars, inVars, subject, auto, indexed, restarted>>

Flip(t) ==
  /\ t \in flips /\ flips' = flips \ {t}
  /\ row' = ByTask(t, "pending")
  /\ watch' = Armed(watch)
  /\ UNCHANGED <<at, goal, farVars, rows, lists, verdict, misses, inVars, envVars>>

-----------------------------------------------------------------------------
(* The watchers.  The poll loop ends when there is nothing to do, the sweep also
   when its lifetime is over. *)
LoopSleeps ==
  /\ watch["loop"] = "start"
  /\ rows' = [rows EXCEPT !["loop"] = RowsToWatch]
  /\ watch' = [watch EXCEPT !["loop"] = IF RowsToWatch = {} /\ ~(auto /\ InPending)
                                          THEN "off" ELSE "ask"]
  /\ UNCHANGED <<outVars, farVars, lists, verdict, misses, inVars, envVars, flips>>

SweepExpires ==
  /\ ~auto /\ watch["loop"] = "start"
  /\ watch' = [watch EXCEPT !["loop"] = "off"]
  /\ UNCHANGED <<outVars, farVars, rows, lists, verdict, misses, inVars, envVars, flips>>

(* status() repairs the row it is asked for when there is no loop
   (api_bridge_tasks, and status() of all, repair row after row the same way). *)
ReaderReads ==
  /\ ~auto /\ watch["reader"] = "off"
  /\ \E a \in RowsToWatch : rows' = [rows EXCEPT !["reader"] = {a}]
  /\ watch' = [watch EXCEPT !["reader"] = "ask"]
  /\ UNCHANGED <<outVars, farVars, lists, verdict, misses, inVars, envVars, flips>>

(* Where a watcher goes when it is through with its rows. *)
After(w) == IF w = "loop" THEN "start" ELSE IF w = "recovery" THEN "inbound" ELSE "off"

AsksOnce(w) == w = "recovery" \/ (w = "loop" /\ auto)
First(s) == CHOOSE a \in s : TRUE

(* The poll loop and the recovery ask for the lists once, a repair for every row.
   OpenList may not answer: the round, or the repair of the row, is over. *)
Asks(w) ==
  /\ watch[w] = "ask" /\ AsksOnce(w)
  /\ lists' = [lists EXCEPT ![w] = IF rows[w] = {} THEN NoLists ELSE [t \in Tasks |-> Listed(t)]]
  /\ watch' = [watch EXCEPT ![w] = IF rows[w] = {} THEN After(w) ELSE "judge"]
  /\ UNCHANGED <<rows, outVars, farVars, verdict, misses, inVars, envVars, flips>>

NoAnswer(w) ==
  /\ watch[w] = "ask"
  /\ rows' = [rows EXCEPT ![w] = IF AsksOnce(w) THEN {} ELSE @ \ {First(@)}]
  /\ watch' = [watch EXCEPT ![w] = IF rows'[w] = {} THEN After(w) ELSE "ask"]
  /\ UNCHANGED <<lists, outVars, farVars, verdict, misses, inVars, envVars, flips>>

(* A task in neither list is looked for by its path: the loop does so at every
   third miss, and only the recovery calls it failed when it is not there. *)
Judgement(w, a, seen) ==
  IF seen # "missing" THEN FromExternal(seen)
  ELSE IF w = "loop" /\ auto /\ misses[a.task] # 0 THEN "none"
  ELSE IF file[a.path] # "none" THEN "done"
  ELSE IF w = "recovery" THEN "failed" ELSE "none"

(* Where a watcher is after a row, when it has the rows rs left. *)
Onward(w, rs) == IF rs = {} THEN After(w) ELSE IF AsksOnce(w) THEN "judge" ELSE "ask"

Judges(w) ==
  /\ \/ watch[w] = "judge"
     \/ watch[w] = "ask" /\ ~AsksOnce(w) /\ rows[w] # {}
  /\ LET a == First(rows[w])
         seen == IF AsksOnce(w) THEN lists[w][a.task] ELSE Listed(a.task)
         s == Judgement(w, a, seen)
         quiet == s = "none" \/ (s = a.state /\ ~AsksOnce(w))
     IN /\ rows' = [rows EXCEPT ![w] = @ \ {a}]
        /\ misses' = IF w = "loop" /\ auto /\ seen = "missing"
                       THEN [misses EXCEPT ![a.task] = (@ + 1) % 3] ELSE misses
        /\ verdict' = [verdict EXCEPT ![w] = IF quiet THEN NoVerdict ELSE [row |-> a, state |-> s]]
        /\ watch' = [watch EXCEPT ![w] = IF quiet THEN Onward(w, rows'[w]) ELSE "write"]
        /\ lists' = IF quiet /\ rows'[w] = {} THEN [lists EXCEPT ![w] = NoLists] ELSE lists
  /\ UNCHANGED <<outVars, farVars, inVars, envVars, flips>>

(* A file of about the size the index has for the resource; without a size of
   the resource there is no match. *)
SizeMatches(n, r) ==
  file[n] # "none" /\ r \in indexed /\ (subject[file[n]] \in Small <=> r \in Small)

(* _maybe_rename_to_intended, possibly failing: the first match gets the name. *)
Renames(a) ==
  \/ UNCHANGED file
  \/ /\ file[a.path] = "none"
     /\ \E n \in Names : /\ SizeMatches(n, a.res)
                         /\ file' = [file EXCEPT ![n] = "none", ![a.path] = file[n]]

Writes(w) ==
  /\ watch[w] = "write"
  /\ LET v == verdict[w] IN
     /\ IF v.state = "done" THEN Renames(v.row) ELSE UNCHANGED file
     /\ row' = ByKey(v.row, v.state)
  /\ verdict' = [verdict EXCEPT ![w] = NoVerdict]
  /\ lists' = IF rows[w] = {} THEN [lists EXCEPT ![w] = NoLists] ELSE lists
  /\ watch' = [watch EXCEPT ![w] = Onward(w, rows[w])]
  /\ UNCHANGED <<at, goal, ext, landed, rows, misses, inVars, envVars, flips>>

-----------------------------------------------------------------------------
(* bridge_in.  A link is uploaded; whatever fails on the way, the store's write
   after the upload too, degrades the capability and falls back to a fetch. *)
SubmitIn(i) ==
  /\ inAt[i] = "new"
  /\ inAt' = [inAt EXCEPT ![i] = "queued"]
  /\ watch' = Armed(watch)
  /\ UNCHANGED <<outVars, farVars, rows, lists, verdict, misses, inRow, fetch, tracked,
                 events, consumer, capable, delivered, envVars, flips>>

InUploads(i) ==
  /\ inAt[i] = "queued"
  /\ \/ inAt' = [inAt EXCEPT ![i] = "end"] /\ UNCHANGED <<capable, delivered>> \* no link
     \/ capable /\ inAt' = [inAt EXCEPT ![i] = "uploaded"]
          /\ delivered' = delivered \cup {i} /\ UNCHANGED capable
     \/ inAt' = [inAt EXCEPT ![i] = "fetch"] /\ capable' = FALSE /\ UNCHANGED delivered
  /\ UNCHANGED <<inRow, fetch, tracked, events, consumer, outVars, farVars, watchVars, envVars, flips>>

InRecordsUpload(i) ==
  /\ inAt[i] = "uploaded"
  /\ \/ inAt' = [inAt EXCEPT ![i] = "end"] /\ inRow' = [task |-> "none", op |-> i, state |-> "done"]
          /\ UNCHANGED capable
     \/ inAt' = [inAt EXCEPT ![i] = "fetch"] /\ capable' = FALSE /\ UNCHANGED inRow
  /\ UNCHANGED <<fetch, tracked, events, consumer, delivered, outVars, farVars, watchVars, envVars, flips>>

(* The consumer is started first; no await lies between the task's enqueueing and
   its tracking. *)
InFetches(i) ==
  /\ inAt[i] = "fetch"
  /\ \/ /\ inAt' = [inAt EXCEPT ![i] = "record"]
        /\ fetch' = [fetch EXCEPT ![i] = "queued"]
        /\ tracked' = tracked \cup {i}
        /\ consumer' = TRUE
     \/ inAt' = [inAt EXCEPT ![i] = "end"] /\ UNCHANGED <<fetch, tracked, consumer>> \* too large
  /\ UNCHANGED <<inRow, events, capable, delivered, outVars, farVars, watchVars, envVars, flips>>

InRecords(i) ==
  /\ inAt[i] = "record"
  /\ inAt' = [inAt EXCEPT ![i] = "end"]
  /\ inRow' = [task |-> i, op |-> i, state |-> "pending"]
  /\ UNCHANGED <<fetch, tracked, events, consumer, capable, delivered, outVars, farVars, watchVars, envVars, flips>>

FetchEnds(i) ==
  /\ fetch[i] = "queued"
  /\ \E s \in {"done", "failed"} :
       /\ fetch' = [fetch EXCEPT ![i] = s]
       /\ delivered' = IF s = "done" THEN delivered \cup {i} ELSE delivered
       /\ events' = IF consumer THEN events \cup {i} ELSE events
  /\ UNCHANGED <<inAt, inRow, tracked, consumer, capable, outVars, farVars, watchVars, envVars, flips>>

Consumes(i) ==
  /\ consumer /\ i \in events
  /\ events' = events \ {i}
  /\ inRow' = IF i \in tracked /\ inRow.task = i
                THEN [inRow EXCEPT !.state = fetch[i]] ELSE inRow
  /\ tracked' = tracked \ {i}
  /\ consumer' = (tracked' # {} \/ (inRow'.state \in {"pending", "running"}))
  /\ UNCHANGED <<inAt, fetch, capable, delivered, outVars, farVars, watchVars, envVars, flips>>

-----------------------------------------------------------------------------
(* A restart: operations and fetches are gone, the rows and OpenList remain. *)
Restart ==
  /\ Disturbs /\ restarted' = TRUE
  /\ at' = [o \in OutOps |-> IF at[o] = "new" THEN "new" ELSE "end"]
  /\ inAt' = [i \in InOps |-> IF inAt[i] = "new" THEN "new" ELSE "end"]
  /\ fetch' = [i \in InOps |-> IF fetch[i] = "queued" THEN "none" ELSE fetch[i]]
  /\ flips' = {} /\ tracked' = {} /\ events' = {} /\ consumer' = FALSE /\ capable' = TRUE
  /\ watch' = [w \in Watchers |-> IF w = "recovery" THEN "start" ELSE "off"]
  /\ rows' = [w \in Watchers |-> {}]
  /\ lists' = [w \in Watchers |-> NoLists]
  /\ verdict' = [w \in Watchers |-> NoVerdict]
  /\ misses' = [t \in Tasks |-> 0]
  /\ UNCHANGED <<row, goal, farVars, inRow, delivered, subject, auto, indexed>>

RecoveryReads ==
  /\ watch["recovery"] = "start"
  /\ rows' = [rows EXCEPT !["recovery"] = RowsToWatch]
  /\ watch' = [watch EXCEPT !["recovery"] = IF RowsToWatch = {} THEN "inbound" ELSE "ask"]
  /\ UNCHANGED <<outVars, farVars, lists, verdict, misses, inVars, envVars, flips>>

(* In-rows that wait are done if the group has a file of that name, else failed;
   then the loop is armed if rows are pending or running. *)
RecoveryEnds ==
  /\ watch["recovery"] = "inbound"
  /\ inRow' = IF inRow.state \in Actionable
                THEN [inRow EXCEPT !.state = IF inRow.op \in delivered THEN "done" ELSE "failed"]
                ELSE inRow
  /\ watch' = LET off == [watch EXCEPT !["recovery"] = "off"] IN
              IF {a \in RowsToWatch : a.state # "unknown"} # {} THEN Armed(off) ELSE off
  /\ UNCHANGED <<outVars, farVars, rows, lists, verdict, misses, inAt, fetch, tracked,
                 events, consumer, capable, delivered, envVars, flips>>

Next ==
  \/ \E o \in OutOps : SubmitOut(o) \/ OutLooks(o) \/ OutVerifies(o) \/ OutSubmits(o) \/ OutRecords(o)
  \/ \E t \in Tasks : RemoteStores(t) \/ RemoteFails(t) \/ RemoteHides(t) \/ Control(t) \/ Flip(t)
  \/ UserRemoves
  \/ LoopSleeps \/ SweepExpires \/ ReaderReads
  \/ \E w \in Watchers : Asks(w) \/ NoAnswer(w) \/ Judges(w) \/ Writes(w)
  \/ \E i \in InOps : SubmitIn(i) \/ InUploads(i) \/ InRecordsUpload(i) \/ InFetches(i)
                      \/ InRecords(i) \/ FetchEnds(i) \/ Consumes(i)
  \/ Restart \/ RecoveryReads \/ RecoveryEnds

Spec == Init /\ [][Next]_vars

-----------------------------------------------------------------------------
Transfers == UNION {RowOf(r) : r \in Resources}

TypeOK ==
  /\ subject \in [OutOps -> Resources] /\ auto \in BOOLEAN /\ indexed \subseteq Resources
  /\ row \in [Resources -> Transfers \cup {NoRow(r) : r \in Resources}]
  /\ \A r \in Resources : row[r].res = r
  /\ at \in [OutOps -> {"new", "queued", "verify", "submit", "record", "end"}]
  /\ goal \in [OutOps -> Paths]
  /\ ext \in [Tasks -> {"none", "undone", "odd", "succeeded", "failed", "canceled", "cleared"}]
  /\ file \in [Names -> Tasks \cup {"none"}]
  /\ watch \in [Watchers -> {"off", "start", "ask", "judge", "write", "inbound"}]
  /\ rows \in [Watchers -> SUBSET Transfers]
  /\ lists \in [Watchers -> [Tasks -> {"missing", "undone", "odd", "succeeded", "failed", "canceled"}]]
  /\ verdict \in [Watchers -> [row : Transfers, state : RowStates] \cup {NoVerdict}]
  /\ misses \in [Tasks -> 0..2] /\ flips \subseteq Tasks
  /\ inAt \in [InOps -> {"new", "queued", "uploaded", "fetch", "record", "end"}]
  /\ inRow \in [task : InOps \cup {"none"}, op : InOps \cup {"none"},
                state : {"none", "pending", "done", "failed"}]
  /\ fetch \in [InOps -> {"none", "queued", "done", "failed"}]
  /\ tracked \subseteq InOps /\ events \subseteq InOps
  /\ consumer \in BOOLEAN /\ capable \in BOOLEAN
  /\ landed \subseteq Tasks /\ delivered \subseteq InOps

(* A row says done only if a transfer of the resource stored a file, and the row of
   a bridge_in only if the file reached the group: Judges, Writes, Consumes and the
   recovery decide on lists, probes and events that are old by then, and on a row
   that may have been replaced.  *)
DoneIsStored ==
  /\ \A r \in Resources : row[r].state = "done" => \E t \in landed : subject[t] = r
  /\ inRow.state = "done" => inRow.op \in delivered

(* A file never gets the name of another resource when their sizes differ
   (the rename matches files by size). *)
NamesHonest ==
  \A p \in Paths : file[p] # "none" => (subject[file[p]] \in Small <=> p[1] \in Small)

LoopFairness ==
  /\ WF_vars(LoopSleeps) /\ SF_vars(Asks("loop")) /\ WF_vars(Judges("loop")) /\ WF_vars(Writes("loop"))
  /\ \A t \in Tasks : WF_vars(RemoteStores(t)) /\ WF_vars(Flip(t))
FairSpec == Spec /\ LoopFairness

(* Nobody can tell: the lists do not show the task, nor its path the file. *)
Untraceable(r) == ext[row[r].task] = "cleared" /\ file[row[r].path] = "none"
Settled(r) == row[r].state = "none" \/ row[r].state \notin Actionable \/ Untraceable(r)

(* Whatever the poll loop has seen unfinished it follows to its end, if OpenList
   answers again and again and the plugin is not restarted.  *)
LoopConverges ==
  \A r \in Resources :
    (auto /\ row[r].state # "none" /\ row[r] \in rows["loop"]) ~> (Settled(r) \/ restarted)

(* "Polling-enabled deployments skip this: the poll loop is the converger"
   (PollingMixin.status): a transfer that is recorded reaches its end.  *)
RecordedConverges ==
  \A o \in OutOps : (auto /\ at[o] = "record") ~> (Settled(subject[o]) \/ restarted)

=============================================================================
