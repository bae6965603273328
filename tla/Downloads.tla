------------------------------ MODULE Downloads ------------------------------
(***************************************************************************)
(* The download service: clients that open resources over SFTP, each on a  *)
(* thread of its own, the cache they fill and the sweep that empties it,   *)
(* requests over HTTP, copies into the SMB share, staged texts, and the    *)
(* shutdown.  Whatever needs the cloud runs as a coroutine on the plugin's *)
(* event loop; a thread waits for it for 180 seconds.                      *)
(*                                                                         *)
(* A resource in volumes is reassembled into a local recon_* file, a new   *)
(* one for every call, which whoever asked for it must remove; of a single *)
(* file the call returns a link.                                           *)
(***************************************************************************)
EXTENDS Integers, FiniteSets

CONSTANTS
  Client,     \* the requests, one job each
  Resource,   \* the resources
  None,       \* no holder of a lock
  Scenarios,  \* the jobs, the sizes in the table and the faults (a bound)
  MaxTrouble  \* bound on faults

Jobs == [kind : {"sftp", "http", "share", "staged"}, of : Resource]
States == {"none", "torn", "whole"}

(* A service starts with whole files in its cache. *)
ASSUME DownloadsAssumption ==
  /\ None \notin Client /\ MaxTrouble \in Nat
  /\ \A s \in Scenarios : /\ s.job \in [Client -> Jobs]
                         /\ s.size \in [Resource -> {"right", "unknown", "more"}]
                         /\ s.cache \in [Resource -> States \ {"torn"}]

VARIABLES
  faults,
  job,     \* client -> [kind, of]: an sftp open, an http request, a copy to the share, a staged text
  size,    \* resource -> what its row says: right, unknown, or more than its bytes
  split,   \* resources in volumes
  at,      \* client -> where it is
  call,    \* client -> its coroutine on the loop, late once nobody waits for it
  recons,  \* clients whose recon_* file is on disk
  cache,   \* resource -> none, torn, whole
  idle,    \* cached resources a sweep may drop
  share,   \* resources with a file in the SMB share
  lock,    \* resource -> holder of its cache lock
  swept,   \* a sweep ran within the minute
  victims, \* client -> what its sweep has listed
  proxies, \* proxy tokens, by the client they were minted for
  staged,  \* staged tokens, by the client
  expired, \* of those, the ones older than a day
  texts,   \* staged files on disk
  stop,    \* the shutdown: no, http, join, gone
  pulls,   \* history: resource -> downloads into the cache
  spoilt,  \* history: resource -> downloads that failed, and cached copies lost
  opened,  \* history: client -> what it opened
  left,    \* history: clients whose recon_* file nobody will remove
  trouble

files == <<recons, texts>>
caching == <<cache, idle, share>>
sweeps == <<swept, victims>>
tokens == <<proxies, staged, expired>>
history == <<pulls, spoilt, opened, left>>
setup == <<faults, job, size, split>>
vars == <<setup, at, call, files, caching, lock, sweeps, tokens, stop, history, trouble>>

Trouble(what) == what \in faults /\ trouble < MaxTrouble /\ trouble' = trouble + 1
Calm == UNCHANGED trouble
Goes(c, where) == at' = [at EXCEPT ![c] = where]
Is(c, kind, where) == job[c].kind = kind /\ at[c] = where
Of(c) == job[c].of

(* While the shutdown joins the threads of the sessions, it holds the loop. *)
Loop == stop # "join"
Root == stop # "gone"

----------------------------------------------------------------------------
(* The coroutine that resolves a resource. *)

Asks(c) == call' = [call EXCEPT ![c] = "info"]
Recon(c) == IF Of(c) \in split THEN recons \cup {c} ELSE recons
Answers(c) ==
  /\ call[c] = "info" /\ Loop /\ recons' = Recon(c) /\ Calm
  /\ call' = [call EXCEPT ![c] = "done"]
  /\ UNCHANGED <<setup, at, texts, caching, lock, sweeps, tokens, stop, history>>
Refuses(c) ==
  /\ call[c] = "info" /\ Loop /\ Trouble("refuse")
  /\ call' = [call EXCEPT ![c] = "failed"]
  /\ UNCHANGED <<setup, at, files, caching, lock, sweeps, tokens, stop, history>>

(* Nobody waits for it any more; a recon_* file it makes stays. *)
Late(c) ==
  /\ call[c] = "late" /\ Loop /\ call' = [call EXCEPT ![c] = "none"]
  /\ recons' = Recon(c) /\ left' = left \cup (recons' \ recons) /\ Calm
  /\ UNCHANGED <<setup, at, texts, caching, lock, sweeps, tokens, stop, pulls, spoilt, opened>>

----------------------------------------------------------------------------
(* An open over SFTP: a thread. *)

Resolves(c) ==
  /\ Is(c, "sftp", "start") /\ Loop
  /\ \/ stop = "no" /\ Goes(c, "check") /\ Calm
     \/ Trouble("refuse") /\ Goes(c, "failed")
     \/ stop # "no" /\ Goes(c, "failed") /\ Calm
  /\ UNCHANGED <<setup, call, files, caching, lock, sweeps, tokens, stop, history>>

Complete(r) == IF size[r] = "unknown" THEN cache[r] # "none"
               ELSE cache[r] = "whole" /\ size[r] = "right"
Checks(c) ==
  /\ Is(c, "sftp", "check") /\ Calm /\ Goes(c, IF Complete(Of(c)) THEN "open" ELSE "miss")
  /\ UNCHANGED <<setup, call, files, caching, lock, sweeps, tokens, stop, history>>

(* A miss sweeps, once a minute; what it removes it has listed before. *)
Reserves(c) ==
  /\ Is(c, "sftp", "miss") /\ Calm /\ swept' = TRUE
  /\ IF swept THEN Goes(c, "lock") /\ UNCHANGED victims
     ELSE /\ victims' = [victims EXCEPT ![c] = idle] /\ Goes(c, "sweep")
  /\ UNCHANGED <<setup, call, files, caching, lock, tokens, stop, history>>
Sweeps(c) ==
  /\ Is(c, "sftp", "sweep") /\ Calm
  /\ cache' = [r \in Resource |-> IF r \in victims[c] THEN "none" ELSE cache[r]]
  /\ idle' = idle \ victims[c] /\ share' = share \ victims[c]
  /\ spoilt' = [r \in Resource |-> IF r \in victims[c] /\ cache[r] # "none" THEN spoilt[r] + 1 ELSE spoilt[r]]
  /\ victims' = [victims EXCEPT ![c] = {}] /\ Goes(c, "lock")
  /\ UNCHANGED <<setup, call, files, lock, swept, tokens, stop, pulls, opened, left>>

Locks(c) ==
  /\ Is(c, "sftp", "lock") /\ lock[Of(c)] = None /\ Calm
  /\ lock' = [lock EXCEPT ![Of(c)] = c] /\ Goes(c, "held")
  /\ UNCHANGED <<setup, call, files, caching, sweeps, tokens, stop, history>>
Frees(c) == [lock EXCEPT ![Of(c)] = None]
Filled_Never(r) == FALSE
Filled(r) == Complete(r)
Rechecks(c) ==
  /\ Is(c, "sftp", "held") /\ Calm
  /\ IF Filled(Of(c)) THEN Goes(c, "open") /\ lock' = Frees(c) /\ UNCHANGED <<call, pulls>>
     ELSE /\ Asks(c) /\ Goes(c, "info") /\ pulls' = [pulls EXCEPT ![Of(c)] = @ + 1] /\ UNCHANGED lock
  /\ UNCHANGED <<setup, files, caching, sweeps, tokens, stop, spoilt, opened, left>>

Spoils(c) == spoilt' = [spoilt EXCEPT ![Of(c)] = @ + 1]
Fails(c) == Goes(c, "failed") /\ lock' = Frees(c) /\ Spoils(c)

(* The wait for the loop is over: an answer, an error, or 180 seconds. *)
Awaits(c) ==
  /\ Is(c, "sftp", "info")
  /\ \/ /\ call[c] = "done" /\ Calm /\ UNCHANGED <<lock, spoilt>>
        /\ IF Of(c) \in split THEN Goes(c, "copy") /\ call' = [call EXCEPT ![c] = "none"]
           ELSE Goes(c, "stream") /\ call' = [call EXCEPT ![c] = "fetch"]
     \/ call[c] = "failed" /\ Calm /\ call' = [call EXCEPT ![c] = "none"] /\ Fails(c)
     \/ call[c] = "info" /\ Trouble("slow") /\ call' = [call EXCEPT ![c] = "late"] /\ Fails(c)
  /\ UNCHANGED <<setup, files, caching, sweeps, tokens, stop, pulls, opened, left>>

(* Bytes go to a file of their own, which is renamed when it is whole. *)
Writing_InPlace(old) == "torn"
Writing(old) == old
Fills(c, state) == cache' = [cache EXCEPT ![Of(c)] = state] /\ idle' = idle \ {Of(c)} /\ UNCHANGED share
Keeps_OnError(c, ok) == IF ok THEN recons \ {c} ELSE recons
Keeps(c, ok) == recons \ {c}
Copies(c) ==
  /\ Is(c, "sftp", "copy") /\ Calm
  /\ IF Root THEN Goes(c, "publish") /\ Fills(c, Writing(cache[Of(c)])) /\ UNCHANGED <<lock, recons, spoilt>>
     ELSE Fails(c) /\ recons' = Keeps(c, FALSE) /\ UNCHANGED caching
  /\ UNCHANGED <<setup, call, texts, sweeps, tokens, stop, pulls, opened, left>>
Publishes(c) ==
  /\ Is(c, "sftp", "publish")
  /\ \/ Root /\ Calm /\ Fills(c, "whole") /\ Goes(c, "open") /\ lock' = Frees(c)
             /\ recons' = Keeps(c, TRUE) /\ UNCHANGED spoilt
     \/ /\ IF Root THEN Trouble("disk") ELSE Calm
        /\ Fails(c) /\ recons' = Keeps(c, FALSE) /\ UNCHANGED caching
  /\ UNCHANGED <<setup, call, texts, sweeps, tokens, stop, pulls, opened, left>>

(* The link is fetched by another thread, which the loop waits for; it goes
   on when the session has given up. *)
Fetches(c) ==
  /\ call[c] \in {"fetch", "late fetch"}
  /\ \/ Root /\ Fills(c, "whole") /\ call' = [call EXCEPT ![c] = IF @ = "fetch" THEN "done" ELSE "none"] /\ Calm
     \/ /\ call' = [call EXCEPT ![c] = IF @ = "fetch" THEN "failed" ELSE "none"] /\ UNCHANGED caching
        /\ IF Root THEN Trouble("disk") ELSE Calm
  /\ UNCHANGED <<setup, at, files, lock, sweeps, tokens, stop, history>>
Streams(c) ==
  /\ Is(c, "sftp", "stream")
  /\ \/ call[c] = "done" /\ Loop /\ Calm /\ Goes(c, "open") /\ lock' = Frees(c)
        /\ call' = [call EXCEPT ![c] = "none"] /\ UNCHANGED spoilt
     \/ call[c] = "failed" /\ Loop /\ Calm /\ call' = [call EXCEPT ![c] = "none"] /\ Fails(c)
     \/ call[c] = "fetch" /\ Trouble("slow") /\ call' = [call EXCEPT ![c] = "late fetch"] /\ Fails(c)
  /\ UNCHANGED <<setup, files, caching, sweeps, tokens, stop, pulls, opened, left>>

(* The lock is free, and the file may be gone again. *)
Opens(c) ==
  /\ Is(c, "sftp", "open") /\ Calm
  /\ Goes(c, IF cache[Of(c)] = "none" THEN "failed" ELSE "done")
  /\ opened' = [opened EXCEPT ![c] = cache[Of(c)]]
  /\ UNCHANGED <<setup, call, files, caching, lock, sweeps, tokens, stop, pulls, spoilt, left>>

----------------------------------------------------------------------------
(* A request over HTTP. *)

Requests(c) ==
  /\ Is(c, "http", "start") /\ Loop /\ Calm
  /\ IF stop = "no" THEN Asks(c) /\ Goes(c, "info") ELSE Goes(c, "failed") /\ UNCHANGED call
  /\ UNCHANGED <<setup, files, caching, lock, sweeps, tokens, stop, history>>

(* A link is not redirected to: the client is sent to a proxy of it. *)
Redirects(c) ==
  /\ Is(c, "http", "info") /\ call[c] \in {"done", "failed"} /\ Loop /\ Calm
  /\ call' = [call EXCEPT ![c] = "none"]
  /\ IF call[c] = "failed" THEN Goes(c, "failed") /\ UNCHANGED proxies
     ELSE IF Of(c) \in split THEN Goes(c, "serve") /\ UNCHANGED proxies
     ELSE Goes(c, "proxy") /\ proxies' = proxies \cup {c}
  /\ UNCHANGED <<setup, files, caching, lock, sweeps, staged, expired, stop, history>>

(* The body; a client that stops reading is dropped after 30 seconds. *)
Serves(c) ==
  /\ Is(c, "http", "serve") /\ Loop
  /\ \/ Goes(c, "done") /\ recons' = Keeps(c, TRUE) /\ Calm
     \/ Trouble("stall") /\ Goes(c, "failed") /\ recons' = Keeps(c, FALSE)
  /\ UNCHANGED <<setup, call, texts, caching, lock, sweeps, tokens, stop, history>>
Follows(c) ==
  /\ Is(c, "http", "proxy") /\ Loop
  /\ \/ c \in proxies /\ stop = "no" /\ Goes(c, "done") /\ Calm
     \/ c \in proxies /\ Trouble("refuse") /\ Goes(c, "failed")
     \/ (c \notin proxies \/ stop # "no") /\ Goes(c, "failed") /\ Calm
  /\ proxies' = IF stop = "no" THEN proxies \ {c} ELSE proxies
  /\ UNCHANGED <<setup, call, files, caching, lock, sweeps, staged, expired, stop, history>>

----------------------------------------------------------------------------
(* A copy into the SMB share: the file that is there is written over in place,
   and of a link nothing is copied. *)

Shares(c) ==
  /\ Is(c, "share", "start") /\ Loop /\ Asks(c) /\ Goes(c, "info") /\ Calm
  /\ UNCHANGED <<setup, files, caching, lock, sweeps, tokens, stop, history>>
Materializes(c) ==
  /\ Is(c, "share", "info") /\ call[c] \in {"done", "failed"} /\ Loop /\ Calm
  /\ call' = [call EXCEPT ![c] = "none"]
  /\ Goes(c, IF call[c] = "done" /\ Of(c) \in split THEN "copy" ELSE "failed")
  /\ UNCHANGED <<setup, files, caching, lock, sweeps, tokens, stop, history>>
Shared(c) ==
  /\ Is(c, "share", "copy") /\ UNCHANGED <<cache, idle>>
  /\ \/ Root /\ Calm /\ share' = share \cup {Of(c)} /\ Goes(c, "done") /\ recons' = recons \ {c} /\ UNCHANGED left
     \/ /\ IF Root THEN Trouble("disk") ELSE Calm
        /\ Goes(c, "failed") /\ left' = left \cup {c} /\ UNCHANGED <<share, recons>>
  /\ UNCHANGED <<setup, call, texts, lock, sweeps, tokens, stop, pulls, spoilt, opened>>

----------------------------------------------------------------------------
(* A staged text: registered, which drops those of yesterday, then fetched. *)

Yesterday(ts) == texts \ ts
Registers(c) ==
  /\ Is(c, "staged", "start") /\ Loop /\ stop = "no" /\ Calm
  /\ staged' = (staged \ expired) \cup {c} /\ expired' = {}
  /\ texts' = Yesterday(expired) \cup {c} /\ Goes(c, "offered")
  /\ UNCHANGED <<setup, call, recons, caching, lock, sweeps, proxies, stop, history>>
Hands(c) ==
  /\ Is(c, "staged", "offered") /\ Loop /\ Calm
  /\ Goes(c, IF stop = "no" /\ c \in staged \cap texts THEN "done" ELSE "failed")
  /\ UNCHANGED <<setup, call, files, caching, lock, sweeps, tokens, stop, history>>

----------------------------------------------------------------------------
(* Time, and the shutdown. *)

Idles(r) ==
  /\ cache[r] # "none" \/ r \in share
  /\ Trouble("idle") /\ idle' = idle \cup {r} /\ UNCHANGED <<cache, share>>
  /\ UNCHANGED <<setup, at, call, files, lock, sweeps, tokens, stop, history>>
Minute ==
  /\ swept /\ Trouble("minute") /\ swept' = FALSE
  /\ UNCHANGED <<setup, at, call, files, caching, lock, victims, tokens, stop, history>>
Day ==
  /\ Trouble("day") /\ expired' = staged /\ proxies' = {}
  /\ UNCHANGED <<setup, at, call, files, caching, lock, sweeps, staged, stop, history>>

Stops ==
  /\ stop = "no" /\ Trouble("stop") /\ stop' = "http"
  /\ UNCHANGED <<setup, at, call, files, caching, lock, sweeps, tokens, history>>
StopsSftp ==
  /\ stop = "http" /\ Calm /\ stop' = "join"
  /\ UNCHANGED <<setup, at, call, files, caching, lock, sweeps, tokens, history>>

(* Every session is waited for, five seconds at most; then the root goes. *)
Sessions == {c \in Client : job[c].kind = "sftp" /\ at[c] \notin {"start", "done", "failed"}}
Joined_Ended == Sessions = {}
Joined == TRUE
Removes ==
  /\ stop = "join" /\ Joined /\ Calm /\ stop' = "gone"
  /\ cache' = [r \in Resource |-> "none"] /\ idle' = {} /\ share' = {}
  /\ spoilt' = [r \in Resource |-> spoilt[r] + 1]
  /\ UNCHANGED <<setup, at, call, files, lock, sweeps, tokens, pulls, opened, left>>

----------------------------------------------------------------------------
Init ==
  \E s \in Scenarios :
    /\ faults = s.faults /\ job = s.job /\ size = s.size /\ split = s.split
    /\ at = [c \in Client |-> "start"] /\ call = [c \in Client |-> "none"]
    /\ recons = {} /\ texts = {} /\ cache = s.cache /\ idle = {r \in Resource : s.cache[r] # "none"}
    /\ share = {} /\ lock = [r \in Resource |-> None] /\ swept = FALSE
    /\ victims = [c \in Client |-> {}] /\ proxies = {} /\ staged = {} /\ expired = {} /\ stop = "no"
    /\ pulls = [r \in Resource |-> 0]
    /\ spoilt = [r \in Resource |-> 0] /\ opened = [c \in Client |-> "none"] /\ left = {} /\ trouble = 0

Works(c) ==
  \/ Answers(c) \/ Late(c) \/ Resolves(c) \/ Checks(c) \/ Reserves(c) \/ Sweeps(c)
  \/ Locks(c) \/ Rechecks(c) \/ Awaits(c) \/ Copies(c) \/ Publishes(c) \/ Fetches(c) \/ Streams(c)
  \/ Opens(c) \/ Requests(c) \/ Redirects(c) \/ Serves(c) \/ Follows(c) \/ Shares(c)
  \/ Materializes(c) \/ Shared(c) \/ Registers(c) \/ Hands(c)
Next ==
  \/ \E c \in Client : Works(c) \/ Refuses(c)
  \/ \E r \in Resource : Idles(r)
  \/ Minute \/ Day \/ Stops \/ StopsSftp \/ Removes
Spec == /\ Init /\ [][Next]_vars
        /\ \A c \in Client : WF_vars(Works(c))
        /\ WF_vars(StopsSftp \/ Removes)
----------------------------------------------------------------------------
(* Properties. *)

Places == {"start", "check", "miss", "sweep", "lock", "held", "info", "copy", "publish", "stream",
           "open", "serve", "proxy", "offered", "done", "failed"}
TypeOK ==
  /\ job \in [Client -> Jobs] /\ size \in [Resource -> {"right", "unknown", "more"}]
  /\ at \in [Client -> Places]
  /\ call \in [Client -> {"none", "info", "late", "fetch", "late fetch", "done", "failed"}]
  /\ recons \subseteq Client /\ texts \subseteq Client /\ expired \subseteq staged
  /\ cache \in [Resource -> States] /\ idle \subseteq Resource
  /\ victims \in [Client -> SUBSET Resource] /\ lock \in [Resource -> Client \cup {None}]
  /\ pulls \in [Resource -> Nat] /\ spoilt \in [Resource -> Nat] /\ opened \in [Client -> States]
  /\ stop \in {"no", "http", "join", "gone"} /\ trouble \in 0 .. MaxTrouble

(* However many clients open a resource at once, it is downloaded once, and
   again only for a download that failed or a cached copy that was dropped
   (download_server_io.py:191-199). *)
PulledOnce == \A r \in Resource : size[r] # "more" => pulls[r] <= 1 + spoilt[r]

(* What a client opens is whole: not a file that another thread is writing,
   not one a failed download left behind, also where the row knows no size. *)
OpenedWhole == \A c \in Client : opened[c] # "torn"

(* A reassembled file is on disk only while the request it was made for is at
   work, except when its session gave up on the loop, or the copy into the
   share failed; a staged file is on disk only as long as its token is good. *)
Reclaimed ==
  /\ \A c \in recons \ left : at[c] \notin {"done", "failed"}
  /\ texts = staged

(* Every request ends, and so does the shutdown: no lock stays with a session
   that failed, and the loop is not held for ever by a session that waits for
   the loop. *)
Ends == /\ \A c \in Client : <>(at[c] \in {"done", "failed"} \/ (Is(c, "staged", "start") /\ stop # "no"))
        /\ (stop # "no") ~> (stop = "gone")
=============================================================================
