------------------------------- MODULE Netdisk -------------------------------
(***************************************************************************)
(* The netdisk: the session of the OpenList client, which every call of    *)
(* the plugin shares, the calls themselves (browse, changes, links, the    *)
(* deep index), the remote directories they list and change, and the table *)
(* of the entries seen.                                                    *)
(*                                                                         *)
(* A call carries the stored token, or logs in for one.  An answer 401     *)
(* drops the stored token, logs in and sends the call once more.  The deep *)
(* index is a queue operation: it lists page by page, and when a call or   *)
(* the store fails, the queue starts it again at its root.                 *)
(*                                                                         *)
(* A directory is a sequence, one entry to a page; a job is the sequence   *)
(* of requests it still has to make.                                       *)
(***************************************************************************)
EXTENDS Naturals, FiniteSets, SequencesExt

CONSTANTS
  Job,        \* the calls of the plugin
  File,       \* names of files
  Scenarios,  \* jobs, directories, credentials and faults (a bound)
  MaxReplays, \* the queue's retries
  MaxTokens,  \* token numbers: those nobody holds are used again
  MaxPage,    \* a page past every directory's end
  MaxTrouble  \* bound on faults

Sub == "sub"
Dir == {"root", Sub}
Path == Dir \X (File \cup {Sub})

(* A request, and what a job is planned to ask for. *)
Request == [op : {"list", "link", "stat", "mkdir", "rename", "move", "copy", "remove", "prune", "gather"},
            dir : Dir, name : File \cup {Sub, "none"}, to : File \cup {Sub, "none"}, page : Nat]
Plans == [kind : {"browse", "index", "link", "call", "batch", "copy"}, todo : Seq(Request) \ {<<>>}]

ASSUME NetdiskAssumption ==
  /\ MaxReplays \in Nat /\ MaxTokens \in Nat /\ MaxPage \in Nat /\ Sub \notin File
  /\ \A s \in Scenarios : s.plan \in [Job -> Plans] /\ s.token \in 0..MaxTokens /\ s.drive \in [Dir -> Seq(File \cup {Sub})]

VARIABLES
  faults,
  plan,      \* job -> [kind, todo]
  creds,     \* a user name and a password are configured
  lying,     \* the server says there are more pages, always
  token,     \* the client's token, 0 for none
  accepted,  \* tokens the server accepts
  client,    \* the HTTP client is open
  bye,       \* the unload: its phase, and the token it logs out
  job,       \* job -> where it is, and the request under way
  drive,     \* directory -> its entries
  rows,      \* the table: path -> its row
  ran,       \* history: job -> times the server carried out the request under way
  steady,    \* history: index job -> files that were there when it started, in directories nobody shrank
  trouble

session == <<token, accepted>>
setup == <<faults, plan, creds, lying>>
history == <<ran, steady>>
vars == <<setup, session, client, bye, job, drive, rows, history, trouble>>

Trouble(what) == what \in faults /\ trouble < MaxTrouble /\ trouble' = trouble + 1
Calm == UNCHANGED trouble

NoRow == [known |-> FALSE, indexed |-> FALSE]
Has(d, n) == n \in Range(drive[d])
Exists(d) == d = "root" \/ Has("root", Sub)
Files == {p \in Dir \X File : Exists(p[1]) /\ Has(p[1], p[2])}
Under(p) == {f \in Files : Head(p.todo).dir \in {"root", f[1]}}   \* what an index planned as p should find

Ask(op, d, n, to) == [op |-> op, dir |-> d, name |-> n, to |-> to, page |-> 1]
List(d) == Ask("list", d, "none", "none")
Want(j) == Head(job[j].todo)
Other(d) == IF d = "root" THEN Sub ELSE "root"

(* The jobs, by the requests they make. *)
Plan(kind, todo) == [kind |-> kind, todo |-> todo]
Browse(d) == Plan("browse", <<List(d)>>)
Index(d) == Plan("index", <<List(d)>>)
Link(d, n) == Plan("link", <<Ask("link", d, n, "none"), Ask("stat", d, n, "none")>>)
Change(op, d, n, to) == Plan("call", <<Ask(op, d, n, to)>>)
Tidy(op, d) == Plan("call", <<Ask(op, d, Sub, "none")>>)
Batch(renames) == Plan("batch", renames)
Verify(d, n) == <<Ask("stat", d, n, "none"), Ask("stat", Other(d), n, "none")>>
Copy(d, n) == Plan("copy", <<Ask("copy", d, n, n)>> \o Verify(d, n))

ASSUME IndexAssumption == \A s \in Scenarios, j \in Job : s.plan[j].kind = "index" => \E d \in Dir : s.plan[j] = Index(d)

----------------------------------------------------------------------------
(* What the server does with a request: its answer, and the directories    *)
(* afterwards.  A new entry may come anywhere in the order of a listing.   *)

Into(d, s, n) == {[drive EXCEPT ![d] = InsertAt(s, i, n)] : i \in 1..(Len(s) + 1)}
Answer(r) ==
  IF ~Exists(r.dir) THEN "missing"
  ELSE CASE
       r.op \in {"list", "link", "gather"} -> "ok"
    [] r.op = "mkdir" -> IF Has(r.dir, r.name) THEN "exists" ELSE "ok"
    [] r.op \in {"rename", "move", "copy"} /\ Has(IF r.op = "rename" THEN r.dir ELSE Other(r.dir), r.to) -> "exists"
    [] OTHER -> IF Has(r.dir, r.name) THEN "ok" ELSE "missing"
After(r) ==
  LET rest == RemoveFirst(drive[r.dir], r.name)
      there == Other(r.dir)
  IN CASE r.op = "mkdir" -> Into(r.dir, drive[r.dir], r.name)
       [] r.op = "rename" -> Into(r.dir, rest, r.to)
       [] r.op = "copy" -> Into(there, drive[there], r.to)
       [] r.op = "move" -> {[d EXCEPT ![r.dir] = rest] : d \in Into(there, drive[there], r.to)}
       [] r.op = "remove" -> {[drive EXCEPT ![r.dir] = rest, ![Sub] = IF r.name = Sub THEN <<>> ELSE @]}
       [] r.op = "prune" -> {IF r.dir = "root" /\ drive[Sub] = <<>> THEN [drive EXCEPT !["root"] = RemoveFirst(@, Sub)] ELSE drive}
       [] r.op = "gather" -> {[drive EXCEPT ![Sub] = <<>>, !["root"] = drive[Sub] \o @]}
       [] OTHER -> {drive}
Shrunk(r) ==
  IF r.op \notin {"rename", "remove", "move", "prune", "gather"} THEN {}
  ELSE {p \in Path : r.dir \in {"root", p[1]}}

----------------------------------------------------------------------------
(* A request of a job. *)

Puts(j, r) == job' = [job EXCEPT ![j] = r]
Over(r) == [r EXCEPT !.again = FALSE, !.bearer = 0, !.good = FALSE, !.code = "none", !.entries = {}, !.more = FALSE]
Onward(r) == [Over(r) EXCEPT !.todo = Tail(@), !.at = IF Len(r.todo) = 1 THEN "done" ELSE "next"]

(* How a job takes a failed request: a batch notes it, a copy's later      *)
(* verification may fail, a link is asked for in two ways, an index is     *)
(* replayed by the queue; anything else fails.                             *)
InBatch(j) == plan[j].kind = "batch"
Verifying(j) == plan[j].kind = "copy" /\ Want(j).op # "copy"
Alternative(j) == plan[j].kind = "link" /\ Want(j).op = "link"
Failed(j) ==
  LET r == Over(job[j])
      kind == plan[j].kind
  IN CASE InBatch(j) \/ Verifying(j) \/ Alternative(j) -> Onward(r)
       [] kind = "index" /\ r.tries < MaxReplays -> [r EXCEPT !.at = "replay"]
       [] OTHER -> [r EXCEPT !.at = "failed"]

(* ensure_token and the request that follows it, with the token stored now. *)
Attempt(j, stored, again) ==
  Puts(j, IF stored # 0
          THEN [job[j] EXCEPT !.at = "sent", !.bearer = stored, !.again = again, !.good = stored \in accepted]
          ELSE IF creds THEN [job[j] EXCEPT !.at = "login", !.again = again]
          ELSE Failed(j))

Begins(j) ==
  /\ job[j].at = "next" /\ Calm /\ Attempt(j, token, FALSE)
  /\ client' = TRUE /\ ran' = [ran EXCEPT ![j] = 0]
  /\ UNCHANGED <<setup, session, bye, drive, rows, steady>>

Held == {token, bye.of} \cup {job[k].bearer : k \in Job}
LogsIn(j) ==
  /\ job[j].at = "login" /\ Calm
  /\ \E t \in 1..MaxTokens :
       /\ t \notin Held /\ 1..(t - 1) \subseteq Held
       /\ token' = t /\ accepted' = (accepted \cap Held) \cup {t}
       /\ Puts(j, [job[j] EXCEPT !.at = "sent", !.bearer = t, !.good = TRUE])
  /\ UNCHANGED <<setup, client, bye, drive, rows, history>>

(* The server: a listing shows the page as it is now. *)
Serves(j) ==
  /\ job[j].at = "sent" /\ Calm
  /\ LET r == Want(j)
         code == IF job[j].bearer \in accepted THEN Answer(r) ELSE "401"
         page == IF r.op = "list" /\ code = "ok" /\ r.page <= Len(drive[r.dir]) THEN {drive[r.dir][r.page]} ELSE {}
     IN /\ Puts(j, [job[j] EXCEPT !.at = "answered", !.code = code, !.entries = page,
                                  !.more = r.op = "list" /\ (lying \/ r.page < Len(drive[r.dir]))])
        /\ IF code = "ok"
           THEN /\ drive' \in After(r) /\ ran' = [ran EXCEPT ![j] = @ + 1]
                /\ steady' = [k \in Job |-> IF job[k].at = "done" THEN steady[k] ELSE steady[k] \ Shrunk(r)]
           ELSE UNCHANGED <<drive, history>>
  /\ UNCHANGED <<setup, session, client, bye, rows>>

MadeAlready(op, code) == op = "mkdir" /\ code = "exists"
NotThere(op, code) == op = "stat" /\ code = "missing"
Cleared_Kept == token
Cleared == 0
Receives(j) ==
  /\ job[j].at = "answered" /\ Calm
  /\ LET code == job[j].code
         op == Want(j).op
     IN IF code = "401" /\ ~job[j].again THEN token' = Cleared /\ Attempt(j, token', TRUE)
        ELSE /\ UNCHANGED token
             /\ Puts(j, IF code # "ok" /\ ~MadeAlready(op, code) /\ ~NotThere(op, code) THEN Failed(j) ELSE
                        CASE op = "list" -> [job[j] EXCEPT !.at = "store"]
                          [] op = "link" -> [job[j] EXCEPT !.at = "done"]
                          [] OTHER -> Onward(job[j]))
  /\ UNCHANGED <<setup, accepted, client, bye, drive, rows, history>>

(* No answer: the request, or its answer, is lost, or too late. *)
Unanswered_Again(j) ==
  IF job[j].again \/ job[j].at = "login" THEN Puts(j, Failed(j)) ELSE Attempt(j, token, TRUE)
Unanswered(j) == Puts(j, Failed(j))
TimesOut(j) ==
  /\ job[j].at \in {"login", "sent", "answered"} /\ Trouble("lost") /\ Unanswered(j)
  /\ UNCHANGED <<setup, session, client, bye, drive, rows, history>>

----------------------------------------------------------------------------
(* The table. *)

Registered == [known |-> TRUE, indexed |-> FALSE]
Merged(old) == IF old.known THEN old ELSE Registered
Registers(j) ==
  /\ job[j].at = "store" /\ Calm
  /\ rows' = [p \in Path |-> IF p[1] = Want(j).dir /\ p[2] \in job[j].entries THEN Merged(rows[p]) ELSE rows[p]]
  /\ Puts(j, [job[j] EXCEPT !.at = IF plan[j].kind = "index" THEN "mark" ELSE "done"])
  /\ UNCHANGED <<setup, session, client, bye, drive, history>>

(* Then the page is marked as indexed, and the walk goes on: the next page *)
(* of this directory, or the next directory.                               *)
Continues_Flag(r) == r.more
Continues(r) == r.more /\ r.entries # {}
Subdirs(r) == IF Sub \in r.entries THEN <<List(Sub)>> ELSE <<>>
NextPage(todo) == <<[Head(todo) EXCEPT !.page = IF @ < MaxPage THEN @ + 1 ELSE MaxPage]>> \o Tail(todo)
Marks(j) ==
  /\ job[j].at = "mark" /\ Calm
  /\ rows' = [p \in Path |-> IF p[1] = Want(j).dir /\ p[2] \in job[j].entries \ {Sub} /\ rows[p].known
                             THEN [rows[p] EXCEPT !.indexed = TRUE] ELSE rows[p]]
  /\ LET r == [job[j] EXCEPT !.todo = @ \o Subdirs(job[j])]
     IN Puts(j, IF Continues(r)
                THEN [Over(r) EXCEPT !.todo = NextPage(@), !.at = "next"]
                ELSE Onward(r))
  /\ UNCHANGED <<setup, session, client, bye, drive, history>>

StoreFails(j) ==
  /\ job[j].at \in {"store", "mark"} /\ Trouble("busy") /\ Puts(j, Failed(j))
  /\ UNCHANGED <<setup, session, client, bye, drive, rows, history>>

(* A tag for a path that nobody has listed yet makes its row.              *)
Tags(p) ==
  /\ ~rows[p].known /\ Trouble("tag") /\ rows' = [rows EXCEPT ![p] = Registered]
  /\ UNCHANGED <<setup, session, client, bye, job, drive, history>>

(* The queue: a failed walk starts again, and a cancel takes effect before *)
(* a directory.                                                            *)
Restart_Resumed(j) == job[j].todo
Restart(j) == plan[j].todo
Replays(j) ==
  /\ job[j].at = "replay" /\ Calm
  /\ Puts(j, [job[j] EXCEPT !.at = "next", !.tries = @ + 1, !.todo = Restart(j)])
  /\ steady' = [steady EXCEPT ![j] = Under(plan[j])]
  /\ UNCHANGED <<setup, session, client, bye, drive, rows, ran>>

Cancels(j) ==
  /\ plan[j].kind = "index" /\ job[j].at = "next" /\ Want(j).page = 1 /\ Trouble("cancel")
  /\ Puts(j, [job[j] EXCEPT !.at = "cancelled"])
  /\ UNCHANGED <<setup, session, client, bye, drive, rows, history>>

----------------------------------------------------------------------------
(* The session ends at the server, or with the plugin: the logout has five *)
(* seconds, then the client closes under the calls on their way.  The      *)
(* queue is stopped later: its next call opens a client again.             *)

Expires(t) ==
  /\ t \in accepted /\ Trouble("expire") /\ accepted' = accepted \ {t}
  /\ UNCHANGED <<setup, token, client, bye, job, drive, rows, history>>

Unloads ==
  /\ bye.phase = "no" /\ client /\ Trouble("unload") /\ bye' = [phase |-> "logout", of |-> token]
  /\ UNCHANGED <<setup, session, client, job, drive, rows, history>>

Closes ==
  /\ bye.phase = "logout" /\ Calm /\ bye' = [bye EXCEPT !.phase = "over"] /\ client' = FALSE
  /\ accepted' \in {accepted, accepted \ {bye.of}}
  /\ job' = [j \in Job |-> IF job[j].at \in {"login", "sent", "answered"} THEN Failed(j) ELSE job[j]]
  /\ UNCHANGED <<setup, token, drive, rows, history>>

----------------------------------------------------------------------------

Idle(p) == [at |-> "next", todo |-> p.todo, again |-> FALSE, bearer |-> 0, good |-> FALSE, code |-> "none",
            entries |-> {}, more |-> FALSE, tries |-> 0]

Init ==
  /\ \E s \in Scenarios :
       /\ faults = s.faults /\ plan = s.plan /\ creds = s.creds /\ lying = s.lying
       /\ drive = s.drive /\ token = s.token
  /\ accepted = 1..token /\ client = FALSE /\ bye = [phase |-> "no", of |-> 0]
  /\ job = [j \in Job |-> Idle(plan[j])]
  /\ rows = [p \in Path |-> NoRow]
  /\ ran = [j \in Job |-> 0] /\ steady = [j \in Job |-> IF plan[j].kind = "index" THEN Under(plan[j]) ELSE {}] /\ trouble = 0

Steps(j) == Begins(j) \/ LogsIn(j) \/ Serves(j) \/ Receives(j) \/ Registers(j) \/ Marks(j) \/ Replays(j)

Next ==
  \/ \E j \in Job : Steps(j) \/ TimesOut(j) \/ StoreFails(j) \/ Cancels(j)
  \/ \E p \in Path : Tags(p)
  \/ \E t \in 1..MaxTokens : Expires(t)
  \/ Unloads \/ Closes

(* The event loop runs every call on, and the server answers. *)
Spec == Init /\ [][Next]_vars /\ WF_vars(Closes) /\ \A j \in Job : WF_vars(Steps(j))

----------------------------------------------------------------------------

Ended == {"done", "failed", "cancelled"}

(* Tokens are issued ones, every job is at a step it has, with a request to
   make unless it has ended, and the table has rows.                       *)
CallOK(r) ==
  /\ r.at \in Ended \cup {"next", "login", "sent", "answered", "store", "mark", "replay"}
  /\ r.todo \in Seq(Request) /\ (r.at \notin Ended => r.todo # <<>>)
  /\ r.again \in BOOLEAN /\ r.good \in BOOLEAN /\ r.bearer \in 0..MaxTokens /\ r.tries \in 0..MaxReplays
TypeOK ==
  /\ token \in 0..MaxTokens /\ accepted \subseteq 1..MaxTokens
  /\ plan \in [Job -> Plans] /\ ran \in [Job -> Nat] /\ DOMAIN job = Job /\ \A j \in Job : CallOK(job[j])
  /\ rows \in [Path -> {NoRow} \cup [known : {TRUE}, indexed : BOOLEAN]]

(* A change the server carried out is not carried out again by the same    *)
(* request: what is replayed is what was refused, and a lost answer is an  *)
(* error to the caller, who alone knows whether to repeat (_request        *)
(* replays on 401 and 403 only).                                           *)
ExecutedOnce == \A j \in Job : ran[j] <= 1

(* A call is refused a second time only if the token it logged in for   *)
(* was taken back while the call was on its way; a token another call had  *)
(* stored, dropped or found expired never fails it.                        *)
AuthHeals == \A j \in Job : job[j].at = "answered" /\ job[j].code = "401" /\ job[j].again => job[j].good

(* An index that reports success has registered and marked every file that *)
(* was there when its walk started, in a directory from which nothing was  *)
(* taken meanwhile, however often it was replayed and whatever was added;  *)
(* and no later listing takes a mark back (netdisk.py: "idempotent by      *)
(* construction").                                                         *)
IndexedAll ==
  \A j \in Job : plan[j].kind = "index" /\ job[j].at = "done" => \A p \in steady[j] : rows[p].indexed

(* Every call ends, an index too, although the server may promise more     *)
(* pages for ever and the plugin may be unloaded under it.                 *)
Ends == \A j \in Job : <>(job[j].at \in Ended)
=============================================================================
