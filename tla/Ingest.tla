------------------------------- MODULE Ingest -------------------------------
(***************************************************************************)
(* The ingestion of one group: texts that become essence messages, images  *)
(* that enter an album, videos that enter the group's files whole or in    *)
(* segments, and what is fetched from a URL into any of these; beside them *)
(* the refresh of the index of albums and essences, and the deletion of a  *)
(* text.  Each is an operation of the queue.                               *)
(*                                                                         *)
(* No call that sends something is idempotent, and the queue runs a        *)
(* handler again from its first line after a retry, a pause and a restart. *)
(* What keeps it from sending twice is its payload, which the ledger holds *)
(* as of the last transition (or checkpoint), the replayed flag, which a   *)
(* restart forgets, and the listings of the cloud.                         *)
(***************************************************************************)
EXTENDS Integers, FiniteSets, Sequences

CONSTANTS
  Ops,       \* operations
  Scenarios, \* kind, name and source of each, and the faults met (a bound)
  MaxTrouble \* bound on failures, lost answers, pauses and crashes

VARIABLES
  plan,     \* the scenario
  at,       \* where an operation is
  replayed, \* op.replayed
  payload,  \* op.payload: parts sent, path, parent
  ledger,   \* the payload as the ledger holds it
  part,     \* the part in hand, and the message it was sent as
  disk,     \* the staging directory: path -> whose content
  essence,  \* messages sent: [op, part, set]
  media,    \* entries of the album and of the group's files: [name, op, part]
  texts,    \* rows of saved texts, by title: parts -> message
  indexed,  \* rows of listed essences: messages
  heard,    \* the listing an operation works on
  parents,  \* rows of split videos: ids -> parts in the volumes table
  doubt,    \* history: times a part may have been sent without a trace
  trouble

cloud == <<essence, media>>
index == <<texts, indexed, parents>>
vars == <<plan, at, replayed, payload, ledger, part, disk, essence, media, texts, indexed,
          heard, parents, doubt, trouble>>

Kind(o) == plan.kind[o]
Name(o) == plan.name[o]
Seqs == {1, 2}
Whole == 0
Uuid(o) == <<"uuid", o>>           \* the staging name an upload arrives under
Declared(o) == <<"name", Name(o)>> \* the name the album is to show
Nobody == "nobody"
NoText == [status |-> "none", parts |-> [s \in Seqs |-> 0]]
Titles == {plan.name[o] : o \in Ops}
Paths == {Uuid(o) : o \in Ops} \cup {<<"name", plan.name[o]>> : o \in Ops}

Uploads == {"image", "clip", "video", "album_video"}
Fetches == {"fetch_file", "fetch_image", "fetch_text"}
Kinds == Uploads \cup Fetches \cup {"text", "forget", "refresh"}

Places == {"idle", "queued", "paused", "failed", "done", "part", "say", "set", "keep", "index", "unset",
           "list", "reconcile", "refuse", "source", "album", "probe", "put", "refresh", "refreshed",
           "sync", "end", "ended", "split", "send", "row", "download", "fetched"}

ASSUME IngestAssumption ==
  /\ Nobody \notin Ops /\ MaxTrouble \in Nat
  /\ \A s \in Scenarios : s.kind \in [Ops -> Kinds] /\ DOMAIN s.name = Ops

Runs(o) == at[o] \notin {"idle", "queued", "paused", "failed", "done"}
Live(o) == at[o] \notin {"idle", "failed", "done"}

Trouble(what) == what \in plan.faults /\ trouble < MaxTrouble /\ trouble' = trouble + 1
Go(o, where) == at' = [at EXCEPT ![o] = where]
Doubted(o, s) == doubt' = [doubt EXCEPT ![<<o, s>>] = @ + 1]

----------------------------------------------------------------------------
(* The queue, as the handlers see it. *)

Writes(o) == ledger' = [ledger EXCEPT ![o] = payload'[o]]

Staged(o) == [disk EXCEPT ![Uuid(o)] = o]
Forgettable(t) == texts[t].status = "active"
Submit(o) ==
  /\ at[o] = "idle"
  /\ Kind(o) = "forget" => Forgettable(Name(o))
  /\ Go(o, "queued")
  /\ payload' = [payload EXCEPT ![o].sent = IF Kind(o) = "forget" THEN texts[Name(o)].parts ELSE @]
  /\ disk' = IF Kind(o) \in Uploads THEN Staged(o) ELSE disk
  /\ Writes(o)
  /\ UNCHANGED <<plan, replayed, part, cloud, index, heard, doubt, trouble>>

First(o) ==
  CASE Kind(o) = "text" -> "part"
    [] Kind(o) = "forget" -> "unset"
    [] Kind(o) = "refresh" -> "list"
    [] Kind(o) = "album_video" -> "refuse"
    [] Kind(o) \in Fetches -> "download"
    [] OTHER -> "source"

Starts(o) ==
  /\ at[o] = "queued" /\ Go(o, First(o)) /\ UNCHANGED payload /\ Writes(o)
  /\ UNCHANGED <<plan, replayed, part, disk, cloud, index, heard, doubt, trouble>>

(* An exception: of a kind the queue retries, or not; a fetch drops the file
   it downloaded under the name it downloaded it as. *)
Drops(o) == IF Kind(o) \in Fetches THEN [disk EXCEPT ![Uuid(o)] = Nobody] ELSE disk
Retried_Drops(o) ==
  /\ Go(o, "queued") /\ replayed' = [replayed EXCEPT ![o] = TRUE]
  /\ UNCHANGED payload /\ Writes(o) /\ disk' = [disk EXCEPT ![Uuid(o)] = Nobody]
Retried(o) ==
  /\ Go(o, "queued") /\ replayed' = [replayed EXCEPT ![o] = TRUE]
  /\ UNCHANGED payload /\ Writes(o) /\ disk' = Drops(o)
GivesUp(o) ==
  /\ Go(o, "failed") /\ UNCHANGED <<replayed, payload>> /\ Writes(o)
  /\ disk' = IF Kind(o) = "text" THEN disk
             ELSE [Drops(o) EXCEPT ![Uuid(o)] = Nobody,
                                   ![Declared(o)] = IF payload[o].renamed THEN Nobody ELSE @]

Fails(o) ==
  /\ at[o] \in {"say", "set", "album", "put", "download", "split", "send"}
  /\ Trouble("fail") /\ Retried(o)
  /\ IF at[o] = "set" THEN Doubted(o, part[o].seq) ELSE UNCHANGED doubt
  /\ UNCHANGED <<plan, part, cloud, index, heard>>

Pauses(o) ==
  /\ at[o] \in {"part", "unset", "download", "fetched", "send"}
  /\ Trouble("pause") /\ Go(o, "paused")
  /\ replayed' = [replayed EXCEPT ![o] = TRUE] /\ UNCHANGED payload /\ Writes(o) /\ disk' = Drops(o)
  /\ UNCHANGED <<plan, part, cloud, index, heard, doubt>>

Resumes(o) ==
  /\ at[o] = "paused" /\ Go(o, "queued")
  /\ UNCHANGED <<plan, replayed, payload, ledger, part, disk, cloud, index, heard, doubt, trouble>>

(* The page resubmits what was interrupted: new operations on old payloads. *)
Sent(o, s) == \E n \in DOMAIN media : media[n].op = o /\ media[n].part = s
Crash ==
  /\ Trouble("crash")
  /\ at' = [o \in Ops |-> IF Live(o) THEN "queued" ELSE at[o]]
  /\ replayed' = [o \in Ops |-> FALSE] /\ payload' = ledger
  /\ doubt' = [d \in DOMAIN doubt |->
       LET o == d[1] IN
       doubt[d] + IF \/ at[o] \in {"set", "keep"} /\ part[o].seq = d[2]
                     \/ at[o] = "row" /\ part[o].seq = d[2]
                     \/ Live(o) /\ Kind(o) \notin {"text", "video"} /\ Sent(o, d[2])
                  THEN 1 ELSE 0]
  /\ UNCHANGED <<plan, ledger, part, disk, cloud, index, heard>>

----------------------------------------------------------------------------
(* Texts. *)

Known(o) == {s \in Seqs : payload[o].sent[s] # 0}
Message(o, s) == [op |-> o, part |-> s, set |-> FALSE]
NextPart(o) == CHOOSE s \in Seqs \ Known(o) : \A t \in Seqs \ Known(o) : s <= t

TakesPart(o) ==
  /\ at[o] = "part"
  /\ IF Known(o) = Seqs THEN Go(o, "index") /\ UNCHANGED part
     ELSE Go(o, "say") /\ part' = [part EXCEPT ![o] = [seq |-> NextPart(o), id |-> 0]]
  /\ UNCHANGED <<plan, replayed, payload, ledger, disk, cloud, index, heard, doubt, trouble>>

(* The part is sent; its answer, the message_id, may be lost. *)
Says(o) ==
  /\ at[o] = "say" /\ essence' = Append(essence, Message(o, part[o].seq))
  /\ \/ /\ Go(o, "set") /\ part' = [part EXCEPT ![o].id = Len(essence')]
        /\ UNCHANGED <<replayed, payload, ledger, disk, doubt, trouble>>
     \/ /\ Trouble("lost") /\ Retried(o) /\ Doubted(o, part[o].seq) /\ UNCHANGED part
  /\ UNCHANGED <<plan, media, index, heard>>

(* Up to three times the same message is set, and looked for in the list of
   essences.  A part that is never seen ends the operation. *)
Sets(o) ==
  /\ at[o] = "set"
  /\ \/ /\ essence' = [essence EXCEPT ![part[o].id].set = TRUE]
        /\ payload' = [payload EXCEPT ![o].sent[part[o].seq] = part[o].id] /\ Go(o, "keep")
        /\ UNCHANGED <<replayed, ledger, disk, doubt, trouble>>
     \/ /\ Trouble("unseen") /\ GivesUp(o) /\ Doubted(o, part[o].seq)
        /\ \E b \in BOOLEAN : essence' = [essence EXCEPT ![part[o].id].set = b]
  /\ UNCHANGED <<plan, part, media, index, heard>>

Keeps_Not(o) ==
  /\ at[o] = "keep" /\ Go(o, "part")
  /\ UNCHANGED <<plan, replayed, payload, ledger, part, disk, cloud, index, heard, doubt, trouble>>
Keeps(o) ==
  /\ at[o] = "keep" /\ Go(o, "part") /\ UNCHANGED payload /\ Writes(o)
  /\ UNCHANGED <<plan, replayed, part, disk, cloud, index, heard, doubt, trouble>>

IndexesText(o) ==
  /\ at[o] = "index" /\ Go(o, "done")
  /\ texts' = [texts EXCEPT ![Name(o)] = [status |-> "active", parts |-> payload[o].sent]]
  /\ UNCHANGED payload /\ Writes(o)
  /\ UNCHANGED <<plan, replayed, part, disk, cloud, indexed, heard, parents, doubt, trouble>>

(* A deletion: each message as it was at the request, failures aside; then
   the row of the title. *)
Left(o) == {s \in Seqs : payload[o].sent[s] # 0}
Unsets(o) ==
  /\ at[o] = "unset" /\ Left(o) # {}
  /\ \E s \in Left(o) :
       /\ \A t \in Left(o) : s <= t
       /\ payload' = [payload EXCEPT ![o].sent[s] = 0]
       /\ \/ essence' = [essence EXCEPT ![payload[o].sent[s]].set = FALSE] /\ UNCHANGED trouble
          \/ Trouble("fail") /\ UNCHANGED essence
  /\ UNCHANGED <<plan, at, replayed, ledger, part, disk, media, index, heard, doubt>>

ForgetsText(o) ==
  /\ at[o] = "unset" /\ Left(o) = {} /\ Go(o, "done")
  /\ texts' = [texts EXCEPT ![Name(o)].status = "deleted"]
  /\ UNCHANGED payload /\ Writes(o)
  /\ UNCHANGED <<plan, replayed, part, disk, cloud, indexed, heard, parents, doubt, trouble>>

(* The refresh of the index, of a scan and after an upload into an album. *)
Listed == {n \in DOMAIN essence : essence[n].set}
Hears(o) ==
  /\ at[o] \in {"list", "refresh"}
  /\ \/ heard' = [heard EXCEPT ![o] = Listed] /\ Go(o, IF at[o] = "list" THEN "reconcile" ELSE "refreshed")
        /\ UNCHANGED trouble
     \/ Trouble("fail") /\ Go(o, "end") /\ UNCHANGED heard
  /\ UNCHANGED <<plan, replayed, payload, ledger, part, disk, cloud, index, doubt>>

(* Rows that the listing does not show are deleted, those of saved texts
   excepted. *)
Spared_None(t) == NoText
Spared(t) == texts[t]
Rebuilt(o) == /\ indexed' = heard[o]
              /\ texts' = [t \in DOMAIN texts |-> Spared(t)]
Reconciles(o) ==
  /\ at[o] \in {"reconcile", "refreshed"} /\ Rebuilt(o) /\ Go(o, "end")
  /\ UNCHANGED <<plan, replayed, payload, ledger, part, disk, cloud, heard, parents, doubt, trouble>>

(* Success: the staged files go. *)
Ends(o) ==
  /\ at[o] = "end" /\ Go(o, "ended")
  /\ disk' = IF Kind(o) = "refresh" THEN disk
             ELSE [disk EXCEPT ![Uuid(o)] = Nobody,
                               ![Declared(o)] = IF payload[o].renamed THEN Nobody ELSE @]
  /\ UNCHANGED <<plan, replayed, payload, ledger, part, cloud, index, heard, doubt, trouble>>

Completes(o) ==
  /\ at[o] = "ended" /\ Go(o, "done") /\ UNCHANGED payload /\ Writes(o)
  /\ UNCHANGED <<plan, replayed, part, disk, cloud, index, heard, doubt, trouble>>

----------------------------------------------------------------------------
(* Media. *)

Entry(o, s) == [op |-> o, name |-> Name(o), part |-> s]

(* The staged file: where an earlier run left it, or where it arrived. *)
Source(o) ==
  IF payload[o].renamed /\ disk[Declared(o)] # Nobody THEN Declared(o)
  ELSE IF disk[Uuid(o)] # Nobody THEN Uuid(o) ELSE <<"none", Nobody>>
FindsSource(o) ==
  /\ at[o] = "source"
  /\ \/ /\ Source(o) \in Paths /\ UNCHANGED <<replayed, payload, ledger, disk>>
        /\ Go(o, CASE Kind(o) = "image" -> "album" [] Kind(o) = "video" -> "split" [] OTHER -> "probe")
     \/ Source(o) \notin Paths /\ GivesUp(o)
  /\ UNCHANGED <<plan, part, cloud, index, heard, doubt, trouble>>

(* The adapter takes no video into an album. *)
Refuses(o) ==
  /\ at[o] = "refuse" /\ GivesUp(o)
  /\ UNCHANGED <<plan, part, cloud, index, heard, doubt, trouble>>

(* The album is found, or made; the file takes the name the album will show,
   in place of any file of that name.  Another operation of the name may have
   taken it along meanwhile: the upload then finds nothing. *)
TakesName(o) ==
  /\ at[o] = "album"
  /\ \/ LET from == Source(o) IN
        /\ disk' = IF from \notin Paths THEN disk
                   ELSE [[disk EXCEPT ![Declared(o)] = disk[from]] EXCEPT ![Uuid(o)] = Nobody]
        /\ payload' = [payload EXCEPT ![o].renamed = Kind(o) = "image"]
        /\ Go(o, "probe") /\ UNCHANGED <<replayed, ledger, trouble>>
     \/ Trouble("album") /\ GivesUp(o)
  /\ UNCHANGED <<plan, part, cloud, index, heard, doubt>>

(* On a replay the listing is asked for the name; a failed listing shows
   nothing. *)
Shows(n) == \E i \in DOMAIN media : media[i].name = n /\ media[i].part = Whole
After(o) == IF Kind(o) \in {"image", "fetch_image"} THEN "refresh" ELSE "sync"
Probes_Never(o) ==
  /\ at[o] = "probe" /\ Go(o, "put")
  /\ UNCHANGED <<plan, replayed, payload, ledger, part, disk, cloud, index, heard, doubt, trouble>>
Probes(o) ==
  /\ at[o] = "probe"
  /\ \/ /\ Go(o, IF replayed[o] /\ Shows(Name(o)) THEN After(o) ELSE "put")
        /\ UNCHANGED <<doubt, trouble>>
     \/ /\ replayed[o] /\ Trouble("fail") /\ Go(o, "put")
        /\ IF Sent(o, Whole) THEN Doubted(o, Whole) ELSE UNCHANGED doubt
  /\ UNCHANGED <<plan, replayed, payload, ledger, part, disk, cloud, index, heard>>

File(o) == IF Kind(o) = "image" \/ Kind(o) = "fetch_image" THEN disk[Declared(o)] ELSE disk[Uuid(o)]
Puts(o) ==
  /\ at[o] = "put"
  /\ IF File(o) = Nobody THEN Retried(o) /\ UNCHANGED <<media, trouble>>
     ELSE /\ media' = Append(media, [Entry(o, Whole) EXCEPT !.op = File(o)])
          /\ \/ Go(o, After(o)) /\ UNCHANGED <<replayed, payload, ledger, disk, trouble>>
             \/ Trouble("lost") /\ Retried(o)
  /\ UNCHANGED <<plan, part, essence, index, heard, doubt>>

(* The sync after it reports its failures and raises none. *)
SyncsGroup(o) ==
  /\ at[o] = "sync" /\ Go(o, "end")
  /\ UNCHANGED <<plan, replayed, payload, ledger, part, disk, cloud, index, heard, doubt, trouble>>

----------------------------------------------------------------------------
(* A long video: a parent of its own, and a volume for each segment. *)

Parent(o) == payload[o].parent
Splits(o) ==
  LET p == IF Parent(o) # 0 THEN Parent(o) ELSE Len(parents) + 1
  IN /\ at[o] = "split" /\ Go(o, "send")
     /\ payload' = [payload EXCEPT ![o].parent = p]
     /\ parents' = IF Parent(o) # 0 THEN parents ELSE Append(parents, {})
     /\ part' = [part EXCEPT ![o] = [seq |-> 1, id |-> 0]]
     /\ UNCHANGED <<plan, replayed, ledger, disk, cloud, texts, indexed, heard, doubt, trouble>>

Skips(o) == part[o].seq \in parents[Parent(o)]
Advances(o) == part' = [part EXCEPT ![o].seq = @ + 1]
SendsSegment(o) ==
  /\ at[o] = "send"
  /\ \/ /\ part[o].seq \notin Seqs /\ Go(o, "sync")
        /\ UNCHANGED <<replayed, payload, ledger, part, disk, media, doubt, trouble>>
     \/ /\ part[o].seq \in Seqs /\ Skips(o) /\ Advances(o)
        /\ UNCHANGED <<at, replayed, payload, ledger, disk, media, doubt, trouble>>
     \/ /\ part[o].seq \in Seqs /\ ~Skips(o)
        /\ media' = Append(media, Entry(o, part[o].seq)) /\ UNCHANGED part
        /\ \/ Go(o, "row") /\ UNCHANGED <<replayed, payload, ledger, disk, doubt, trouble>>
           \/ Trouble("lost") /\ Retried(o) /\ Doubted(o, part[o].seq)
  /\ UNCHANGED <<plan, essence, index, heard>>

RecordsSegment(o) ==
  /\ at[o] = "row" /\ Go(o, "send") /\ Advances(o)
  /\ parents' = [parents EXCEPT ![Parent(o)] = @ \cup {part[o].seq}]
  /\ UNCHANGED <<plan, replayed, payload, ledger, disk, cloud, texts, indexed, heard, doubt, trouble>>

----------------------------------------------------------------------------
(* What a URL holds. *)

Downloads(o) ==
  /\ at[o] = "download" /\ Go(o, "fetched") /\ disk' = [disk EXCEPT ![Uuid(o)] = o]
  /\ UNCHANGED <<plan, replayed, payload, ledger, part, cloud, index, heard, doubt, trouble>>

(* A text becomes an operation of its own, which a replay takes to be there. *)
Hands(o) ==
  /\ at[o] = "fetched"
  /\ \/ Kind(o) = "fetch_file" /\ Go(o, "probe") /\ UNCHANGED <<essence, disk>>
     \/ Kind(o) = "fetch_image" /\ Go(o, "album") /\ UNCHANGED <<essence, disk>>
     \/ /\ Kind(o) = "fetch_text" /\ Go(o, "done")
        /\ essence' = IF replayed[o] THEN essence
                      ELSE essence \o <<Message(o, 1), Message(o, 2)>>
        /\ disk' = Drops(o)
  /\ UNCHANGED <<plan, replayed, payload, ledger, part, media, index, heard, doubt, trouble>>

----------------------------------------------------------------------------
Init ==
  /\ plan \in Scenarios
  /\ at = [o \in Ops |-> "idle"] /\ replayed = [o \in Ops |-> FALSE]
  /\ payload = [o \in Ops |-> [sent |-> [s \in Seqs |-> 0], renamed |-> FALSE, parent |-> 0]]
  /\ ledger = payload
  /\ part = [o \in Ops |-> [seq |-> 0, id |-> 0]]
  /\ disk = [p \in Paths |-> Nobody]
  /\ essence = <<>> /\ media = <<>> /\ indexed = {} /\ parents = <<>>
  /\ texts = [t \in Titles |-> NoText]
  /\ heard = [o \in Ops |-> {}]
  /\ doubt = [d \in Ops \X (Seqs \cup {Whole}) |-> 0] /\ trouble = 0

Next ==
  \/ Crash
  \/ \E o \in Ops :
       \/ Submit(o) \/ Starts(o) \/ Fails(o) \/ Pauses(o) \/ Resumes(o)
       \/ TakesPart(o) \/ Says(o) \/ Sets(o) \/ Keeps(o) \/ IndexesText(o)
       \/ Unsets(o) \/ ForgetsText(o) \/ Hears(o) \/ Reconciles(o) \/ Ends(o) \/ Completes(o)
       \/ FindsSource(o) \/ Refuses(o) \/ TakesName(o) \/ Probes(o) \/ Puts(o) \/ SyncsGroup(o)
       \/ Splits(o) \/ SendsSegment(o) \/ RecordsSegment(o)
       \/ Downloads(o) \/ Hands(o)

Spec == Init /\ [][Next]_vars

----------------------------------------------------------------------------
(* Types: the payload names messages and parents that exist, and what is set
   and recorded was sent. *)
Messaged == 0..Len(essence)
Payloads == [Ops -> [sent : [Seqs -> Messaged], renamed : BOOLEAN, parent : 0..Len(parents)]]
TypeOK ==
  /\ plan \in Scenarios /\ trouble \in 0..MaxTrouble
  /\ at \in [Ops -> Places] /\ replayed \in [Ops -> BOOLEAN]
  /\ payload \in Payloads /\ ledger \in Payloads
  /\ part \in [Ops -> [seq : Nat, id : Messaged]]
  /\ disk \in [Paths -> Ops \cup {Nobody}]
  /\ essence \in Seq([op : Ops, part : Seqs, set : BOOLEAN])
  /\ media \in Seq([op : Ops, name : Titles, part : Seqs \cup {Whole}])
  /\ texts \in [Titles -> [status : {"none", "active", "deleted"}, parts : [Seqs -> Messaged]]]
  /\ indexed \subseteq DOMAIN essence /\ heard \in [Ops -> SUBSET DOMAIN essence]
  /\ parents \in Seq(SUBSET Seqs)
  /\ doubt \in [Ops \X (Seqs \cup {Whole}) -> Nat]

Copies(o, s) == {n \in DOMAIN media : media[n].op = o /\ media[n].part = s}
Messages(o, s) == {n \in DOMAIN essence : essence[n].op = o /\ essence[n].part = s}

(* What an operation says is done is done, however often it was run again:
   every part of a text was sent and stands in the live row of its title,
   unless a deletion of it ended; its own medium, and not another of its
   name, is on the cloud; and every segment, with a row of one parent. *)
Delivered ==
  \A o \in Ops : at[o] = "done" =>
    CASE Kind(o) = "text" ->
           \/ \A s \in Seqs : texts[Name(o)].parts[s] \in Messages(o, s) /\ texts[Name(o)].status = "active"
           \/ \E x \in Ops : Name(x) = Name(o) /\ Kind(x) = "forget" /\ at[x] = "done"
      [] Kind(o) = "fetch_text" -> \A s \in Seqs : Messages(o, s) # {}
      [] Kind(o) = "video" -> parents[Parent(o)] = Seqs /\ \A s \in Seqs : Copies(o, s) # {}
      [] Kind(o) \in {"image", "clip", "fetch_file", "fetch_image"} -> Copies(o, Whole) # {}
      [] OTHER -> TRUE

(* The comments on replays (album.py, video.py, fetch.py): nothing is sent
   twice, but for the times when nobody could know that it was sent. *)
SentOnce ==
  \A o \in Ops : /\ \A s \in Seqs \cup {Whole} : Cardinality(Copies(o, s)) <= 1 + doubt[<<o, s>>]
                 /\ \A s \in Seqs : Kind(o) = "text" => Cardinality(Messages(o, s)) <= 1 + doubt[<<o, s>>]

(* A message of a text can be deleted by the plugin: its id is in the payload
   of the operation or in the row, but for those in doubt and the one in hand. *)
Deletable ==
  \A o \in Ops : Kind(o) = "text" => \A s \in Seqs :
    LET known == {payload[o].sent[s], texts[Name(o)].parts[s]}
                 \cup (IF at[o] = "set" THEN {part[o].id} ELSE {})
    IN Cardinality(Messages(o, s) \ known) <= doubt[<<o, s>>]

(* An operation that may run again has its source, under the name it will
   look for, with its own content, as long as the cloud does not have it. *)
SourceKept ==
  \A o \in Ops : /\ Kind(o) \in {"image", "clip", "video"} /\ Live(o) /\ at[o] # "ended"
                 /\ Kind(o) # "video" => Copies(o, Whole) = {}
                 => Source(o) \in Paths /\ disk[Source(o)] = o
=============================================================================
