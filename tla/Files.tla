------------------------------- MODULE Files -------------------------------
(***************************************************************************)
(* The files of one QQ group and the plugin's index of them: the tables    *)
(* resources and volumes, the full and the differential sync, and the      *)
(* operations that upload, delete, rename, move, split and read files.     *)
(*                                                                         *)
(* A file on the cloud is a copy of a content.  Its file_id is a handle    *)
(* of the present NapCat session, <<copy, session>>, and the resource_id   *)
(* of a row derives from it; a parent made for an upload in volumes has    *)
(* the handle <<0, n>>, which never changes.  A big content is uploaded as *)
(* its parts.  Each attempt at an upload zips the parts anew, and a zip    *)
(* holds the times of what it packs: bytes and sha256 go by the attempt.   *)
(*                                                                         *)
(* Every step ends at an await that another actor may use.                 *)
(***************************************************************************)
EXTENDS Integers, FiniteSets, SequencesExt

CONSTANTS
  Ops,       \* operations of the queue and requests of the page
  Big,       \* contents above the volume threshold
  Scenarios, \* what the cloud holds and what each operation does (a bound)
  MaxCopies, \* bound on the copies ever made
  MaxTrouble \* bound on failures, lost answers, crashes, pauses, new
             \* sessions and what members do

ASSUME FilesAssumption ==
  /\ MaxCopies \in Nat /\ MaxTrouble \in Nat /\ "none" \notin Ops
  /\ \A p \in Scenarios : /\ p.holds \in Seq(p.contents) /\ Len(p.holds) <= MaxCopies
                          /\ DOMAIN p.op = Ops /\ \A o \in Ops : p.op[o].content \in p.contents
                          /\ "none" \notin p.contents
                          /\ \A i, j \in DOMAIN p.holds : p.holds[i] = p.holds[j] => i = j

Parts(c) == IF c \in Big THEN {<<c, 1>>, <<c, 2>>} ELSE {}
Whole(c) == <<c, 0>>      \* a content and the name it has at first
Renamed(c) == <<c, 9>>    \* the name a rename gives it
Gone == <<"none", 0>>
NoOne == "none"
NoRef == <<0, 0>>

VARIABLES
  plan,     \* the scenario: kind and content of each operation, the faults met
  cloud,    \* the group's files: what, name, deep (below the first level), zip
  session,  \* the NapCat session
  parents,  \* what the parents made so far are of
  rows,     \* table resources
  vols,     \* table volumes
  news,     \* copies whose group_upload event has not arrived
  at,       \* where an operation is
  why,      \* what it syncs for
  target,   \* payload.id, a row
  key,      \* payload.parent_resource_id_full
  saved,    \* the payload as the ledger holds it
  zip,      \* the attempt that made the zips it uploads
  todo,     \* the parts it has not come to
  done,     \* the parts it has seen uploaded, with a ref
  seen,     \* the listing its sync works on
  lock,     \* the group's sync lock
  staged,   \* uploads whose staged file exists
  folders,  \* folders of one name that create_folder made
  trouble,  \* disturbances so far
  calm,     \* history: nothing happened beside an operation's sync
  clean,    \* history: nothing happened since a full sync that was calm
  wanted,   \* history: contents that are on the cloud and were not deleted
  doubt     \* history: uploads of a part, or folder, not known to have worked

table == <<rows, vols>>
handles == <<session, parents>>
local == <<at, why, target, key, saved, zip, todo, done, seen, staged>>
vars == <<plan, cloud, handles, rows, vols, news, at, why, target, key, saved, zip, todo, done,
          seen, lock, staged, folders, trouble, calm, clean, wanted, doubt>>

Kind(o) == plan.op[o].kind
Of(o) == plan.op[o].content
There == {k \in DOMAIN cloud : cloud[k].on}
Ref(k) == <<k, session>>
Live(i) == rows[i].status = "active"

----------------------------------------------------------------------------
(* The tables. *)

Row(ref, name, meta) ==
  [ref |-> ref, name |-> name, key |-> name, status |-> "active", meta |-> meta]
Item(k) == Row(Ref(k), cloud[k].name, "plain")

(* What a row keeps of itself when a listing or an event brings it again:
   the meta of a composition, and the logical key. *)
Merged(old, new) ==
  [old EXCEPT !.ref = new.ref, !.name = new.name, !.status = "active",
              !.meta = IF @ = "plain" THEN new.meta ELSE @]

(* One row of the batch.  A handler reaches only the constraint it names: a
   row found by its resource_id that becomes active beside another row of its
   key is an IntegrityError, which rolls the batch back. *)
PutRow(x, new) ==
  LET same == {i \in DOMAIN x.rows : x.rows[i].ref = new.ref}
      held(k) == {i \in DOMAIN x.rows : x.rows[i].status = "active" /\ x.rows[i].key = k}
      onto(i) == [x EXCEPT !.rows[i] = Merged(@, new)]
  IN CASE ~x.ok -> x
       [] x.ok /\ same # {} ->
            LET i == CHOOSE i \in same : TRUE
            IN IF held(x.rows[i].key) \subseteq {i} THEN onto(i) ELSE [x EXCEPT !.ok = FALSE]
       [] x.ok /\ same = {} /\ held(new.key) # {} ->
            onto(CHOOSE i \in held(new.key) : TRUE)
       [] OTHER -> [x EXCEPT !.rows = Append(@, new)]

Moved(vs, old, new) == {[v EXCEPT !.parent = IF @ = old THEN new ELSE @] : v \in vs}

(* The volumes of a parent change to another one.  A part has one row of its
   parent, and a second one is an IntegrityError. *)
Clash(vs, old, new) ==
  old # new /\ \E v, w \in vs : v.parent = old /\ w.parent = new /\ v.part = w.part
Chased(x, old, new) ==
  IF Clash(x.vols, old, new) THEN [x EXCEPT !.ok = FALSE] ELSE [x EXCEPT !.vols = Moved(@, old, new)]

(* A composition whose handle is listed no more gives its meta and its
   volumes to the row of its name, the last one listed, and becomes a tombstone. *)
Inherit(x, i, items) ==
  LET p == x.rows[i]
      heirs == {n \in DOMAIN items : items[n].name = p.name}
      h == items[CHOOSE n \in heirs : \A m \in heirs : m <= n].ref
  IN IF p.meta = "plain" \/ heirs = {} \/ \E n \in DOMAIN items : items[n].ref = p.ref THEN x
     ELSE Chased([x EXCEPT !.rows = [j \in DOMAIN x.rows |->
                                       IF j = i THEN [p EXCEPT !.status = "deleted"]
                                       ELSE IF x.rows[j].ref = h THEN [x.rows[j] EXCEPT !.meta = p.meta]
                                       ELSE x.rows[j]]], p.ref, h)

(* The handle that the row of an item's name had before the batch. *)
HadRef(it) ==
  LET of == {i \in DOMAIN rows : Live(i) /\ rows[i].name = it.name}
  IN IF of = {} THEN it.ref ELSE rows[CHOOSE i \in of : TRUE].ref

(* The statements of a batch, one after the other: the rows, then what a
   composition leaves, then the volumes of the rows that lost their handle. *)
Apply(x, w) ==
  CASE w.do = "put" -> PutRow(x, w.row)
    [] w.do = "inherit" -> Inherit(x, w.of, w.items)
    [] OTHER -> Chased(x, w.from, w.to)
Stages(x, ws) ==
  LET after[n \in 0..Len(ws)] == IF n = 0 THEN x ELSE Apply(after[n - 1], ws[n]) IN after
Batch(x, ws) == Stages(x, ws)[Len(ws)]

Puts(items) == [n \in DOMAIN items |-> [do |-> "put", row |-> items[n]]]
Inherits(r, items) == [i \in DOMAIN r |-> [do |-> "inherit", of |-> i, items |-> items]]
Chases(items) == [n \in DOMAIN items |-> [do |-> "chase", from |-> HadRef(items[n]), to |-> items[n].ref]]
Upserted(items) ==
  LET x == [rows |-> rows, vols |-> vols, ok |-> TRUE]
      put == Batch(x, Puts(items))
      all == Batch(Batch(put, Inherits(put.rows, items)), Chases(items))
  IN IF all.ok THEN all ELSE [x EXCEPT !.ok = FALSE]

Pruned_All(refs) ==
  [i \in DOMAIN rows |->
     IF Live(i) /\ rows[i].ref \notin refs THEN [rows[i] EXCEPT !.status = "deleted"] ELSE rows[i]]

(* Rows that a complete listing does not show; a composition is spared. *)
Pruned(refs) ==
  [i \in DOMAIN rows |->
     IF Live(i) /\ rows[i].ref \notin refs /\ rows[i].meta = "plain"
     THEN [rows[i] EXCEPT !.status = "deleted"] ELSE rows[i]]

Inserted_Anew(parent, c, z) ==
  {v \in vols : v.parent # parent} \cup
  {[parent |-> parent, part |-> p, status |-> "pending", ref |-> NoRef, sha |-> z] : p \in Parts(c)}

Inserted(parent, c, z) ==
  LET had == {v \in vols : v.parent = parent}
      status(p) == IF \E v \in had : v.part = p /\ v.status = "uploaded" THEN "uploaded" ELSE "pending"
      ref(p) == IF \E v \in had : v.part = p THEN (CHOOSE v \in had : v.part = p).ref ELSE NoRef
  IN (vols \ had) \cup
     {[parent |-> parent, part |-> p, status |-> status(p), ref |-> ref(p), sha |-> z] : p \in Parts(c)}

UpdatedPart(parent, p, status, z) ==
  {IF v.parent = parent /\ v.part = p
   THEN [v EXCEPT !.status = status, !.sha = IF status = "uploaded" THEN z ELSE @] ELSE v : v \in vols}

(* backfill_volume_refs: by the names of the active rows. *)
Filled(parent) ==
  {IF v.parent = parent /\ \E i \in DOMAIN rows : Live(i) /\ rows[i].name = v.part
   THEN [v EXCEPT !.ref = rows[CHOOSE i \in DOMAIN rows : Live(i) /\ rows[i].name = v.part].ref]
   ELSE v : v \in vols}

(* backfill_volume_by_part: where the ref is empty. *)
FilledByEvent(vs, k) ==
  {IF v.part = cloud[k].name /\ v.ref = NoRef THEN [v EXCEPT !.ref = Ref(k)] ELSE v : v \in vs}

Uploaded_Any(parent) == {v.part : v \in {x \in vols : x.parent = parent}}

Uploaded(parent) ==
  {v.part : v \in {x \in vols : x.parent = parent /\ x.status = "uploaded" /\ x.ref # NoRef}}
Unfilled(parent) ==
  {v.part : v \in {x \in vols : x.parent = parent /\ x.status = "uploaded" /\ x.ref = NoRef}}

RowOf(o) == target[o]     \* payload.id

(* A live listing, by name; what is found is a copy. *)
Named(n) == {k \in There : cloud[k].name = n}

----------------------------------------------------------------------------
(* History, failures, and uploads. *)

Disturb == calm' = [x \in Ops |-> FALSE] /\ clean' = FALSE
DisturbOthers(o) == calm' = [x \in Ops |-> x = o /\ calm[x]] /\ clean' = FALSE
Quiet == UNCHANGED <<calm, clean>>

Trouble(what) == /\ what \in plan.faults /\ trouble < MaxTrouble /\ trouble' = trouble + 1

Go(o, where) == at' = [at EXCEPT ![o] = where]
Then(o, where) == /\ Go(o, where)
                  /\ UNCHANGED <<why, target, key, saved, zip, todo, done, seen, staged>>

File(what, name, deep, z) == [what |-> what, name |-> name, deep |-> deep, zip |-> z, on |-> TRUE]
Never == [what |-> Gone, name |-> Gone, deep |-> FALSE, zip |-> 0, on |-> FALSE]
Free == {k \in DOMAIN cloud : cloud[k] = Never}
Stored(what, name, deep, z) ==
  LET k == CHOOSE k \in Free : \A j \in Free : k <= j
  IN /\ Free # {}
     /\ cloud' = [cloud EXCEPT ![k] = File(what, name, deep, z)]
     /\ news' = IF "event" \in plan.faults THEN news \cup {k} ELSE news
     /\ Disturb

Emptied(k) == cloud' = [cloud EXCEPT ![k].on = FALSE]

(* An exception: the queue runs the handler again from its first line, or
   gives up. *)
Busy(o) == at[o] \notin {"idle", "begin", "paused", "failed", "done"}
Raise(o) ==
  /\ \E where \in {"begin", "failed"} : Then(o, where)
  /\ lock' = IF lock = o THEN NoOne ELSE lock

Fails(o) ==
  /\ Busy(o) /\ at[o] \in {"send", "list", "deep", "download", "delete", "folder"}
  /\ Trouble("fail")
  /\ IF at[o] \in {"list", "deep"}       \* the sync returns its failure
     THEN Then(o, "unsynced") /\ lock' = NoOne
     ELSE Raise(o)
  /\ Quiet /\ UNCHANGED <<plan, cloud, handles, rows, vols, news, folders, wanted, doubt>>

(* pause_check before a part and before the original is deleted. *)
Pauses(o) ==
  /\ at[o] \in {"part", "stamp", "delete"} /\ Kind(o) \in {"upload", "convert"}
  /\ Trouble("pause") /\ Then(o, "paused")
  /\ Quiet /\ UNCHANGED <<plan, cloud, handles, table, news, lock, folders, wanted, doubt>>

Resumes(o) ==
  /\ at[o] = "paused" /\ Then(o, "begin")
  /\ Quiet /\ UNCHANGED <<plan, cloud, handles, table, news, lock, folders, trouble, wanted, doubt>>

(* The process stops; what was running is queued again with the payload of
   the ledger. *)
Crash ==
  /\ Trouble("crash")
  /\ at' = [o \in Ops |-> IF Busy(o) /\ Kind(o) # "read" THEN "begin"
                          ELSE IF Busy(o) THEN "failed" ELSE at[o]]
  /\ key' = saved /\ lock' = NoOne
  /\ doubt' = [p \in DOMAIN doubt |->
                 doubt[p] + IF \E o \in Ops : at[o] = "mark" /\ \E t \in todo[o] : t = p THEN 1 ELSE 0]
  /\ Quiet
  /\ UNCHANGED <<plan, cloud, handles, table, news, why, target, saved, zip, todo, done, seen, staged,
                 folders, wanted>>

NewSession ==
  /\ Trouble("session") /\ session' = session + 1
  /\ Disturb
  /\ UNCHANGED <<plan, cloud, parents, table, news, local, lock, folders, wanted, doubt>>

MemberUploads(c) ==
  /\ Trouble("member") /\ Named(Whole(c)) = {} /\ c \notin Big
  /\ \E deep \in BOOLEAN : Stored(Whole(c), Whole(c), deep, 0)
  /\ wanted' = wanted \cup {c}
  /\ UNCHANGED <<plan, handles, table, local, lock, folders, doubt>>

(* Members leave the parts alone. *)
MemberDeletes(k) ==
  /\ Trouble("member") /\ k \in There /\ cloud[k].what[2] = 0
  /\ Emptied(k) /\ wanted' = wanted \ {cloud[k].what[1]}
  /\ Disturb
  /\ UNCHANGED <<plan, handles, table, news, local, lock, folders, doubt>>

(* index_event: no lock. *)
IndexEvent(k) ==
  LET x == Upserted(<<Item(k)>>)
  IN /\ k \in news /\ news' = news \ {k}
     /\ rows' = x.rows /\ vols' = IF x.ok THEN FilledByEvent(x.vols, k) ELSE vols
     /\ Disturb
     /\ UNCHANGED <<plan, cloud, handles, local, lock, folders, trouble, wanted, doubt>>

----------------------------------------------------------------------------
(* A sync.  It gives up at once when the group's lock is held. *)

Sync(o, for) == /\ Go(o, "sync") /\ why' = [why EXCEPT ![o] = for]
                /\ UNCHANGED <<target, key, saved, zip, todo, done, seen, staged>>

SyncStarts(o) ==
  /\ at[o] = "sync"
  /\ IF lock # NoOne
     THEN Then(o, "unsynced") /\ UNCHANGED <<lock, calm>>
     ELSE Then(o, "list") /\ lock' = o /\ calm' = [calm EXCEPT ![o] = TRUE]
  /\ UNCHANGED <<plan, cloud, handles, table, news, folders, trouble, clean, wanted, doubt>>

(* The files of a level come by their time, the oldest or the newest first. *)
ByTime(s) ==
  \/ \A i, j \in DOMAIN s : i < j => s[i].ref[1] < s[j].ref[1]
  \/ \A i, j \in DOMAIN s : i < j => s[i].ref[1] > s[j].ref[1]
Listing(deep) ==
  LET S == {Item(k) : k \in {j \in There : cloud[j].deep = deep}}
  IN {s \in [1..Cardinality(S) -> S] : Range(s) = S /\ ByTime(s)}

SyncLists_Shallow(o) ==
  /\ at[o] = "list" /\ \E s \in Listing(FALSE) : seen' = [seen EXCEPT ![o] = s]
  /\ Go(o, "index") /\ Quiet
  /\ UNCHANGED <<plan, cloud, handles, table, news, why, target, key, saved, zip, todo, done, lock,
                 staged, folders, trouble, wanted, doubt>>

SyncLists(o) ==
  /\ at[o] = "list" /\ \E s \in Listing(FALSE) : seen' = [seen EXCEPT ![o] = s]
  /\ Go(o, IF Kind(o) = "diff" THEN "index" ELSE "deep")
  /\ Quiet
  /\ UNCHANGED <<plan, cloud, handles, table, news, why, target, key, saved, zip, todo, done, lock,
                 staged, folders, trouble, wanted, doubt>>

SyncListsDeep(o) ==
  /\ at[o] = "deep" /\ \E s \in Listing(TRUE) : seen' = [seen EXCEPT ![o] = @ \o s]
  /\ Go(o, "index") /\ Quiet
  /\ UNCHANGED <<plan, cloud, handles, table, news, why, target, key, saved, zip, todo, done, lock,
                 staged, folders, trouble, wanted, doubt>>

SyncIndexes(o) ==
  LET x == Upserted(seen[o])
  IN /\ at[o] = "index"
     /\ IF x.ok
        THEN Then(o, "prune") /\ rows' = x.rows /\ vols' = x.vols /\ lock' = lock /\ DisturbOthers(o)
        ELSE Then(o, "unsynced") /\ lock' = NoOne /\ UNCHANGED <<table, calm, clean>>
     /\ UNCHANGED <<plan, cloud, handles, news, folders, trouble, wanted, doubt>>

SyncPrunes(o) ==
  /\ at[o] = "prune" /\ rows' = Pruned({it.ref : it \in Range(seen[o])})
  /\ Go(o, "synced") /\ seen' = [seen EXCEPT ![o] = <<>>] /\ lock' = NoOne
  /\ UNCHANGED <<why, target, key, saved, zip, todo, done, staged>>
  /\ clean' = (calm[o] /\ Kind(o) # "diff")
  /\ calm' = [x \in Ops |-> FALSE]
  /\ UNCHANGED <<plan, cloud, handles, vols, news, folders, trouble, wanted, doubt>>

(* After a sync that worked: the refs of the parts. *)
SyncEnds(o) ==
  /\ at[o] = "synced"
  /\ vols' = IF key[o] = NoRef THEN vols ELSE Filled(key[o])
  /\ IF why[o] = "resume"
     THEN /\ Go(o, "part")
          /\ done' = [done EXCEPT ![o] = {v.part : v \in {x \in vols' :
                        x.parent = key[o] /\ x.status = "uploaded" /\ x.ref # NoRef}}]
          /\ UNCHANGED staged
     ELSE Go(o, "done") /\ staged' = staged \ {o} /\ UNCHANGED done
  /\ Quiet
  /\ UNCHANGED <<plan, cloud, handles, rows, news, why, target, key, saved, zip, todo, seen, lock,
                 folders, trouble, wanted, doubt>>

(* After one that did not: the upload goes on without; a rename, a
   conversion and a new folder try once more. *)
SyncFailed(o) ==
  /\ at[o] = "unsynced"
  /\ CASE why[o] = "resume" -> Then(o, "part")
       [] why[o] = "final" /\ Kind(o) \in {"rename", "convert", "folder"} -> Sync(o, "again")
       [] OTHER -> /\ Go(o, "done") /\ staged' = staged \ {o}
                   /\ UNCHANGED <<why, target, key, saved, zip, todo, done, seen>>
  /\ doubt' = IF why[o] = "resume"
              THEN [p \in DOMAIN doubt |-> doubt[p] +
                     IF p \in (Unfilled(key[o]) \cup Uploaded(key[o])) \ done[o] THEN 1 ELSE 0] ELSE doubt
  /\ Quiet
  /\ UNCHANGED <<plan, cloud, handles, table, news, lock, folders, trouble, wanted>>

----------------------------------------------------------------------------
(* The operations. *)

(* What the page's requests ask of the row before they queue the operation. *)
Shown(o) == {i \in DOMAIN rows : Live(i) /\ rows[i].name = Whole(Of(o))}
Deletable(o) == Shown(o)
Movable(o) == Shown(o)
Readable(o) == Shown(o)
Renamable(o) == {i \in Shown(o) : rows[i].meta # "whole"}
Convertible(o) ==
  {i \in Shown(o) : rows[i].meta # "whole" /\ Of(o) \in Big /\ ~\E v \in vols : v.part[1] = Of(o)}

Asked(o, from, takesHandle) ==
  \E i \in from : /\ target' = [target EXCEPT ![o] = i]
                  /\ key' = [key EXCEPT ![o] = IF takesHandle THEN rows[i].ref ELSE @]

Submit(o) ==
  /\ at[o] = "idle" /\ Go(o, "begin")
  /\ CASE Kind(o) = "delete" -> Asked(o, Deletable(o), FALSE)
       [] Kind(o) = "move" -> Asked(o, Movable(o), FALSE)
       [] Kind(o) = "rename" -> Asked(o, Renamable(o), FALSE)
       [] Kind(o) = "convert" -> Asked(o, Convertible(o), TRUE)
       [] Kind(o) = "read" -> Asked(o, Readable(o), TRUE)
       [] OTHER -> UNCHANGED <<target, key>>
  /\ saved' = [saved EXCEPT ![o] = key'[o]]
  /\ Quiet
  /\ UNCHANGED <<plan, cloud, handles, table, news, why, zip, todo, done, seen, lock, staged,
                 folders, trouble, wanted, doubt>>

(* An upload above the threshold makes its parent, and the ledger keeps the
   parent's key before a part is sent. *)
UploadBegins(o) ==
  /\ at[o] = "begin" /\ Kind(o) = "upload"
  /\ IF o \notin staged THEN Then(o, "failed") /\ UNCHANGED <<parents, table, calm, clean>>
     ELSE IF Of(o) \notin Big \/ key[o] # NoRef
     THEN Then(o, IF Of(o) \in Big THEN "split" ELSE "send") /\ UNCHANGED <<parents, table, calm, clean>>
     ELSE LET p == <<0, Len(parents) + 1>>
              x == Upserted(<<Row(p, Whole(Of(o)), "parent")>>)
          IN IF x.ok
             THEN /\ parents' = Append(parents, Of(o)) /\ rows' = x.rows /\ vols' = x.vols /\ Disturb
                  /\ key' = [key EXCEPT ![o] = p] /\ Go(o, "keep")
                  /\ UNCHANGED <<why, target, saved, zip, todo, done, seen, staged>>
             ELSE /\ \E where \in {"begin", "failed"} : Then(o, where)
                  /\ UNCHANGED <<parents, table, calm, clean>>
  /\ UNCHANGED <<plan, cloud, session, news, lock, folders, trouble, wanted, doubt>>

UploadKeeps(o) ==
  /\ at[o] = "keep" /\ saved' = [saved EXCEPT ![o] = key[o]] /\ Go(o, "split") /\ Quiet
  /\ UNCHANGED <<plan, cloud, handles, table, news, why, target, key, zip, todo, done, seen, lock,
                 staged, folders, trouble, wanted, doubt>>

ConvertBegins(o) ==
  /\ at[o] = "begin" /\ Kind(o) = "convert" /\ Then(o, "download")
  /\ Quiet
  /\ UNCHANGED <<plan, cloud, handles, table, news, lock, folders, trouble, wanted, doubt>>

(* The original, by its name, or by the handle of the payload. *)
Downloads(o) ==
  /\ at[o] = "download"
  /\ IF Named(Whole(Of(o))) # {} THEN Then(o, IF Kind(o) = "convert" THEN "split" ELSE "send")
     ELSE Then(o, "failed")
  /\ Quiet
  /\ UNCHANGED <<plan, cloud, handles, table, news, lock, folders, trouble, wanted, doubt>>

Splits(o) ==
  /\ at[o] = "split" /\ zip' = [zip EXCEPT ![o] = @ + 1]
  /\ vols' = Inserted(key[o], Of(o), zip[o] + 1)
  /\ todo' = [todo EXCEPT ![o] = Parts(Of(o))]
  /\ done' = [done EXCEPT ![o] = Uploaded(key[o])]
  /\ IF Unfilled(key[o]) # {} THEN Go(o, "sync") /\ why' = [why EXCEPT ![o] = "resume"]
     ELSE Go(o, "part") /\ UNCHANGED why
  /\ Quiet
  /\ UNCHANGED <<plan, cloud, handles, rows, news, target, key, saved, seen, lock, staged, folders,
                 trouble, wanted, doubt>>

Next1(o) == CHOOSE p \in todo[o] : \A q \in todo[o] : p[2] <= q[2]

PartStarts(o) ==
  /\ at[o] = "part"
  /\ IF todo[o] = {} THEN Then(o, "stamp") /\ UNCHANGED vols
     ELSE IF Next1(o) \in done[o]
     THEN /\ todo' = [todo EXCEPT ![o] = @ \ {Next1(o)}] /\ UNCHANGED vols
          /\ UNCHANGED <<at, why, target, key, saved, zip, done, seen, staged>>
     ELSE Then(o, "send") /\ vols' = UpdatedPart(key[o], Next1(o), "uploading", 0)
  /\ Quiet
  /\ UNCHANGED <<plan, cloud, handles, rows, news, lock, folders, trouble, wanted, doubt>>

Name(o) == IF todo[o] # {} THEN Next1(o)
           ELSE IF Kind(o) = "rename" THEN Renamed(Of(o)) ELSE Whole(Of(o))
What(o) == IF todo[o] # {} THEN Next1(o) ELSE Whole(Of(o))

(* upload_group_file, which tells nothing of the file it made.  The answer
   may be lost. *)
Sends(o) ==
  /\ at[o] = "send" /\ Stored(What(o), Name(o), FALSE, zip[o])
  /\ wanted' = IF todo[o] = {} THEN wanted \cup {Of(o)} ELSE wanted
  /\ \/ /\ CASE todo[o] # {} -> Then(o, "mark")
             [] todo[o] = {} /\ Kind(o) = "rename" -> Then(o, "delete")
             [] OTHER -> Sync(o, "final")
        /\ UNCHANGED <<lock, trouble, doubt>>
     \/ /\ Trouble("lost") /\ Raise(o)
        /\ doubt' = [p \in DOMAIN doubt |-> doubt[p] + IF p = What(o) THEN 1 ELSE 0]
  /\ UNCHANGED <<plan, handles, table, folders>>

PartEnds(o) ==
  /\ at[o] = "mark" /\ vols' = UpdatedPart(key[o], Next1(o), "uploaded", zip[o])
  /\ todo' = [todo EXCEPT ![o] = @ \ {Next1(o)}] /\ Go(o, "part")
  /\ Quiet
  /\ UNCHANGED <<plan, cloud, handles, rows, news, why, target, key, saved, zip, done, seen, lock,
                 staged, folders, trouble, wanted, doubt>>

Stamps(o) ==
  /\ at[o] = "stamp"
  /\ rows' = [i \in DOMAIN rows |-> IF rows[i].ref = key[o] THEN [rows[i] EXCEPT !.meta = "whole"] ELSE rows[i]]
  /\ IF Kind(o) = "convert" THEN Then(o, "delete") /\ UNCHANGED wanted
     ELSE Sync(o, "final") /\ wanted' = wanted \cup {Of(o)}
  /\ Disturb
  /\ UNCHANGED <<plan, cloud, handles, vols, news, lock, folders, trouble, doubt>>

(* The copy of a name that is deleted, or the parts of a composition. *)
Victims(o) ==
  IF Kind(o) = "delete" /\ rows[RowOf(o)].meta # "plain"
  THEN {k \in There : \E v \in vols : v.parent = rows[RowOf(o)].ref /\ v.ref # NoRef /\ cloud[k].name = v.part}
  ELSE IF Kind(o) = "delete" THEN Named(rows[RowOf(o)].name) ELSE Named(Whole(Of(o)))

DeleteBegins(o) ==
  /\ at[o] = "begin" /\ Kind(o) = "delete" /\ Then(o, "delete")
  /\ Quiet
  /\ UNCHANGED <<plan, cloud, handles, table, news, lock, folders, trouble, wanted, doubt>>

Deletes(o) ==
  /\ at[o] = "delete" /\ Victims(o) # {}
  /\ \E k \in Victims(o) : (\A j \in Victims(o) : k <= j) /\ Emptied(k)
  /\ CASE Kind(o) = "convert" -> Sync(o, "final")
       [] Kind(o) = "rename" -> Then(o, "rename")
       [] OTHER -> Then(o, IF rows[RowOf(o)].meta = "plain" THEN "forget" ELSE "delete")
  /\ wanted' = IF Kind(o) = "delete" THEN wanted \ {Of(o)} ELSE wanted
  /\ Disturb
  /\ UNCHANGED <<plan, handles, table, news, lock, folders, trouble, doubt>>

(* Already gone: fine for a delete, a failure for the others. *)
FindsNothing(o) ==
  /\ at[o] = "delete" /\ Victims(o) = {}
  /\ Then(o, IF Kind(o) = "delete" THEN "forget" ELSE "failed")
  /\ Quiet
  /\ UNCHANGED <<plan, cloud, handles, table, news, lock, folders, trouble, wanted, doubt>>

Forgets(o) ==
  /\ at[o] = "forget" /\ Then(o, "done")
  /\ rows' = [rows EXCEPT ![RowOf(o)].status = "deleted"]
  /\ vols' = IF rows[RowOf(o)].meta = "plain" THEN vols
             ELSE {v \in vols : v.parent # rows[RowOf(o)].ref}
  /\ Disturb
  /\ UNCHANGED <<plan, cloud, handles, news, lock, folders, trouble, wanted, doubt>>

RenameBegins(o) ==
  /\ at[o] = "begin" /\ Kind(o) = "rename" /\ Then(o, "download")
  /\ Quiet
  /\ UNCHANGED <<plan, cloud, handles, table, news, lock, folders, trouble, wanted, doubt>>

(* The logical key follows the name unless a live row has that name; the
   index is on the key, and may still refuse it. *)
RenamesRow(o) ==
  LET i == RowOf(o)
      n == Renamed(Of(o))
      others == {j \in DOMAIN rows : j # i /\ Live(j)}
      follows == \A j \in others : rows[j].name # n
  IN /\ at[o] = "rename"
     /\ IF follows /\ Live(i) /\ \E j \in others : rows[j].key = n
        THEN Raise(o) /\ UNCHANGED <<rows, calm, clean>>
        ELSE /\ rows' = [rows EXCEPT ![i].name = n, ![i].key = IF follows THEN n ELSE @]
             /\ Sync(o, "final") /\ Disturb /\ UNCHANGED lock
     /\ UNCHANGED <<plan, cloud, handles, vols, news, folders, trouble, wanted, doubt>>

Moves(o) ==
  /\ at[o] = "begin" /\ Kind(o) = "move" /\ Named(Whole(Of(o))) # {}
  /\ \E k \in Named(Whole(Of(o))) : cloud' = [cloud EXCEPT ![k].deep = ~@]
  /\ Then(o, "done") /\ Disturb
  /\ UNCHANGED <<plan, handles, table, news, lock, folders, trouble, wanted, doubt>>

FolderBegins(o) ==
  /\ at[o] = "begin" /\ Kind(o) = "folder" /\ Quiet
  /\ IF zip[o] > 0 /\ folders > 0     \* replayed, and the folder is there
     THEN Sync(o, "final") /\ UNCHANGED <<folders, trouble, lock>>
     ELSE /\ folders' = folders + 1 /\ zip' = [zip EXCEPT ![o] = @ + 1]
          /\ \/ /\ Go(o, "sync") /\ why' = [why EXCEPT ![o] = "final"]
                /\ UNCHANGED <<trouble, lock>>
             \/ Trouble("lost") /\ Go(o, "begin") /\ UNCHANGED <<why, lock>>
          /\ UNCHANGED <<target, key, saved, todo, done, seen, staged>>
  /\ UNCHANGED <<plan, cloud, handles, table, news, wanted, doubt>>

SyncBegins(o) ==
  /\ at[o] = "begin" /\ Kind(o) \in {"full", "diff"} /\ Sync(o, "scan")
  /\ Quiet
  /\ UNCHANGED <<plan, cloud, handles, table, news, lock, folders, trouble, wanted, doubt>>

(* download_info: parts without a ref are looked for once. *)
Reads(o) ==
  /\ at[o] = "begin" /\ Kind(o) = "read"
  /\ IF rows[RowOf(o)].meta # "plain" /\ Unfilled(rows[RowOf(o)].ref) # {}
     THEN Sync(o, "heal") ELSE Then(o, "done")
  /\ Quiet
  /\ UNCHANGED <<plan, cloud, handles, table, news, lock, folders, trouble, wanted, doubt>>

----------------------------------------------------------------------------
Init ==
  /\ plan \in Scenarios
  /\ cloud = [k \in 1..MaxCopies |->
                IF k <= Len(plan.holds)
                THEN File(Whole(plan.holds[k]), Whole(plan.holds[k]), FALSE, 0) ELSE Never]
  /\ session = 0 /\ parents = <<>> /\ vols = {} /\ news = {}
  /\ rows = [k \in 1..Len(plan.holds) |-> Row(<<k, 0>>, Whole(plan.holds[k]), "plain")]
  /\ at = [o \in Ops |-> "idle"] /\ why = [o \in Ops |-> "none"]
  /\ target = [o \in Ops |-> 0]
  /\ key = [o \in Ops |-> NoRef] /\ saved = key
  /\ zip = [o \in Ops |-> 0] /\ todo = [o \in Ops |-> {}] /\ done = todo
  /\ seen = [o \in Ops |-> <<>>]
  /\ lock = NoOne /\ staged = {o \in Ops : Kind(o) = "upload"} /\ folders = 0 /\ trouble = 0
  /\ calm = [o \in Ops |-> FALSE] /\ clean = TRUE
  /\ wanted = {plan.holds[k] : k \in DOMAIN plan.holds}
  /\ doubt = [p \in UNION {Parts(c) \cup {Whole(c)} : c \in plan.contents} |-> 0]

Work(o) ==
  \/ Submit(o) \/ Fails(o) \/ Pauses(o) \/ Resumes(o)
  \/ SyncStarts(o) \/ SyncLists(o) \/ SyncListsDeep(o) \/ SyncIndexes(o) \/ SyncPrunes(o)
  \/ SyncEnds(o) \/ SyncFailed(o)
  \/ UploadBegins(o) \/ UploadKeeps(o) \/ ConvertBegins(o) \/ Downloads(o) \/ Splits(o)
  \/ PartStarts(o) \/ Sends(o) \/ PartEnds(o) \/ Stamps(o)
  \/ DeleteBegins(o) \/ Deletes(o) \/ FindsNothing(o) \/ Forgets(o)
  \/ RenameBegins(o) \/ RenamesRow(o) \/ Moves(o) \/ FolderBegins(o) \/ SyncBegins(o) \/ Reads(o)

Next ==
  \/ \E o \in Ops : Work(o)
  \/ Crash \/ NewSession
  \/ \E c \in plan.contents : MemberUploads(c)
  \/ \E k \in DOMAIN cloud : MemberDeletes(k) \/ IndexEvent(k)

Spec == Init /\ [][Next]_vars

----------------------------------------------------------------------------
(* Types: a handle has one row, a logical key one live row, a part one row of
   its parent, and one sync at most is past the group's lock. *)
Distinct(r) ==
  \A i, j \in DOMAIN r : i # j =>
    /\ r[i].ref # r[j].ref
    /\ r[i].status = "active" /\ r[j].status = "active" => r[i].key # r[j].key
OnePart(vs) == \A v, w \in vs : v.parent = w.parent /\ v.part = w.part => v = w
TypeOK ==
  /\ lock \in Ops \cup {NoOne} /\ trouble \in 0..MaxTrouble
  /\ Distinct(rows) /\ OnePart(vols)
  /\ \A o \in Ops : at[o] \in {"list", "deep", "index", "prune"} <=> lock = o

(* The docstring of resource_sync.py: an idempotent upsert and an orphan
   cleanup.  After a full sync beside which nothing happened the index is
   the cloud: every file has a live row of its name, and a live row that is
   no composition is of a file that is there. *)
Settled ==
  clean =>
    /\ \A k \in There : \E i \in DOMAIN rows : Live(i) /\ rows[i].name = cloud[k].name
    /\ \A i \in DOMAIN rows : Live(i) /\ rows[i].meta = "plain" => \E k \in There : rows[i].ref = Ref(k)

(* Whatever fails, is lost, paused, or replayed: the cloud holds a content
   that nobody deleted, whole or in all its parts. *)
NothingLost ==
  \A c \in wanted : (\E k \in There : cloud[k].what = Whole(c))
                    \/ (Parts(c) # {} /\ \A p \in Parts(c) : \E k \in There : cloud[k].what = p)

(* A content that is on the cloud only in parts can be read through the
   index: one live composition has its name, and every part of it. *)
Reachable ==
  \A c \in wanted \cap Big :
    \/ \E k \in There : cloud[k].what = Whole(c)
    \/ \E i \in DOMAIN rows :
         /\ Live(i) /\ rows[i].meta = "whole" /\ rows[i].name = Whole(c)
         /\ \A p \in Parts(c) : \E v \in vols : v.parent = rows[i].ref /\ v.part = p

(* The comments of volume.py on resuming: a part that was uploaded is not
   uploaded again, unless nobody knows that it was. *)
SentOnce ==
  \A c \in plan.contents : \A p \in Parts(c) :
    Cardinality({k \in There : cloud[k].what = p}) <= 1 + doubt[p]

(* volume.py:50, "the per-volume sha256 covers the uploaded (zipped) bytes":
   of a part that is marked uploaded, some copy on the cloud has the bytes. *)
HashCovers ==
  \A v \in vols : v.status = "uploaded" =>
    \A k \in There : cloud[k].what = v.part =>
      \E j \in There : cloud[j].what = v.part /\ cloud[j].zip = v.sha

(* resources_write.py:117: "the partial predicate spares tombstones so a file
   can return".  A listing can always be written. *)
ListingFits ==
  \A o \in Ops : at[o] = "index" => Upserted(seen[o]).ok
=============================================================================
