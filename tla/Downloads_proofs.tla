-------------------------- MODULE Downloads_proofs --------------------------
(***************************************************************************)
(* Theorems about Downloads, for any clients, resources, jobs and faults.  *)
(***************************************************************************)
EXTENDS Downloads, TLAPS

(* Of a resource, somebody's download is on its way into the cache: the holder
   of its lock has asked for it, and the cache has not got it yet. *)
Pulling == {"info", "copy", "publish", "stream"}
Owed(r) ==
  \E c \in Client : lock[r] = c /\ at[c] \in Pulling /\ ~(at[c] = "stream" /\ call[c] = "done")

(* Every download but one has failed or was lost, and the one is on its way or in
   the cache. *)
Counted ==
  \A r \in Resource : size[r] # "more" =>
    /\ pulls[r] <= 1 + spoilt[r]
    /\ Owed(r) \/ Complete(r) \/ pulls[r] <= spoilt[r]

(* A request is at its wait while its coroutine resolves the resource. *)
Waited == \A c \in Client : call[c] = "info" => at[c] = "info"

(* No file in the cache is torn, and none that was opened. *)
Whole == /\ cache \in [Resource -> States \ {"torn"}]
         /\ opened \in [Client -> States \ {"torn"}]

(* A reassembled file that is not given up is the answer a request waits for, or
   the one it works on. *)
Kept ==
  \A c \in recons \ left :
    /\ Of(c) \in split
    /\ (at[c] = "info" /\ call[c] = "done") \/ at[c] \in {"copy", "publish", "serve"}

(* A lock is held by the session between taking and freeing it, and by no other. *)
Holder(r, c) == Of(c) = r /\ job[c].kind = "sftp" /\ at[c] \in {"held"} \cup Pulling
LocksOK == \A r \in Resource, c \in Client : lock[r] = c <=> Holder(r, c)

DownloadsInv == TypeOK /\ LocksOK /\ Waited /\ Whole /\ Kept /\ texts = staged /\ Counted

-----------------------------------------------------------------------------
LEMMA Initially == Init => DownloadsInv
<1> SUFFICES ASSUME Init PROVE DownloadsInv OBVIOUS
<1> USE DownloadsAssumption DEF DownloadsAssumption
<1>1. TypeOK BY DEF Init, TypeOK, Places, States
<1>2. LocksOK BY DEF Init, LocksOK, Holder, Pulling
<1>3. Waited /\ Whole /\ Kept /\ texts = staged BY DEF Init, Waited, Whole, Kept, States
<1>4. Counted BY DEF Init, Counted
<1> QED BY <1>1, <1>2, <1>3, <1>4 DEF DownloadsInv

(* Types: the requests, the files, the counts. *)
RequestTypes == /\ job \in [Client -> Jobs] /\ size \in [Resource -> {"right", "unknown", "more"}]
                /\ at \in [Client -> Places]
CallTypes == call \in [Client -> {"none", "info", "late", "fetch", "late fetch", "done", "failed"}]
FileTypes == /\ recons \subseteq Client /\ texts \subseteq Client /\ expired \subseteq staged
             /\ idle \subseteq Resource /\ victims \in [Client -> SUBSET Resource]
CacheTypes == cache \in [Resource -> States] /\ opened \in [Client -> States]
LockTypes == lock \in [Resource -> Client \cup {None}]
CountTypes == pulls \in [Resource -> Nat] /\ spoilt \in [Resource -> Nat]
PhaseTypes == stop \in {"no", "http", "join", "gone"} /\ trouble \in 0 .. MaxTrouble

LEMMA RequestsOf == ASSUME RequestTypes, NEW c \in Client PROVE Of(c) \in Resource
BY DEF RequestTypes, Of, Jobs

LEMMA RequestStep == ASSUME RequestTypes, Next PROVE RequestTypes'
<1>1. ASSUME NEW c \in Client, Answers(c) \/ Late(c) \/ Resolves(c) \/ Checks(c) \/ Reserves(c)
       PROVE RequestTypes'
  BY <1>1 DEF Answers, Late, Resolves, Checks, Reserves, RequestTypes, Places,
     Goes, setup
<1>2. ASSUME NEW c \in Client, Sweeps(c) \/ Locks(c) \/ Rechecks(c) \/ Awaits(c) \/ Copies(c)
       PROVE RequestTypes'
  BY <1>2 DEF Sweeps, Locks, Rechecks, Awaits, Copies, RequestTypes, Places,
     Goes, setup, Is, Fails
<1>3. ASSUME NEW c \in Client, Publishes(c) \/ Fetches(c) \/ Streams(c) \/ Opens(c) \/
       Requests(c) PROVE RequestTypes'
  BY <1>3 DEF Publishes, Fetches, Streams, Opens, Requests, RequestTypes,
     Places, Goes, setup, Is, Fails
<1>4. ASSUME NEW c \in Client, Redirects(c) \/ Serves(c) \/ Follows(c) \/ Shares(c) \/
       Materializes(c) PROVE RequestTypes'
  BY <1>4 DEF Redirects, Serves, Follows, Shares, Materializes, RequestTypes,
     Places, Goes, setup, Is, Fails
<1>5. ASSUME NEW c \in Client, Shared(c) \/ Registers(c) \/ Hands(c) \/ Refuses(c) PROVE
       RequestTypes'
  BY <1>5 DEF Shared, Registers, Hands, Refuses, RequestTypes, Places, Goes,
     setup
<1>6. CASE (\E r \in Resource : Idles(r)) \/ Minute \/ Day \/ Stops \/ StopsSftp \/ Removes
  BY <1>6 DEF Idles, Minute, Day, Stops, StopsSftp, Removes, RequestTypes,
     setup
<1> QED
  BY <1>1, <1>2, <1>3, <1>4, <1>5, <1>6 DEF Next, Works

LEMMA CallStep == ASSUME CallTypes, Next PROVE CallTypes'
<1>1. ASSUME NEW c \in Client, Answers(c) \/ Late(c) \/ Resolves(c) \/ Checks(c) \/ Reserves(c)
       PROVE CallTypes'
  BY <1>1 DEF Answers, Late, Resolves, Checks, Reserves, CallTypes, Asks, Is,
     Fails
<1>2. ASSUME NEW c \in Client, Sweeps(c) \/ Locks(c) \/ Rechecks(c) \/ Awaits(c) \/ Copies(c)
       PROVE CallTypes'
  BY <1>2 DEF Sweeps, Locks, Rechecks, Awaits, Copies, CallTypes, Asks, Is,
     Fails
<1>3. ASSUME NEW c \in Client, Publishes(c) \/ Fetches(c) \/ Streams(c) \/ Opens(c) \/
       Requests(c) PROVE CallTypes'
  BY <1>3 DEF Publishes, Fetches, Streams, Opens, Requests, CallTypes, Asks,
     Is, Fails
<1>4. ASSUME NEW c \in Client, Redirects(c) \/ Serves(c) \/ Follows(c) \/ Shares(c) \/
       Materializes(c) PROVE CallTypes'
  BY <1>4 DEF Redirects, Serves, Follows, Shares, Materializes, CallTypes,
     Asks, Is, Fails
<1>5. ASSUME NEW c \in Client, Shared(c) \/ Registers(c) \/ Hands(c) \/ Refuses(c) PROVE
       CallTypes'
  BY <1>5 DEF Shared, Registers, Hands, Refuses, CallTypes, Asks, Is, Fails
<1>6. CASE (\E r \in Resource : Idles(r)) \/ Minute \/ Day \/ Stops \/ StopsSftp \/ Removes
  BY <1>6 DEF Idles, Minute, Day, Stops, StopsSftp, Removes, CallTypes, Asks,
     Is, Fails
<1> QED
  BY <1>1, <1>2, <1>3, <1>4, <1>5, <1>6 DEF Next, Works

LEMMA FileStep == ASSUME FileTypes, Next PROVE FileTypes'
<1>1. ASSUME NEW c \in Client, Answers(c) \/ Late(c) \/ Resolves(c) PROVE FileTypes'
  BY <1>1 DEF Answers, Late, Resolves, FileTypes, files, caching, sweeps,
     tokens, Recon
<1>2. ASSUME NEW c \in Client, Checks(c) \/ Reserves(c) \/ Sweeps(c) PROVE FileTypes'
  BY <1>2 DEF Checks, Reserves, Sweeps, FileTypes, files, caching, sweeps,
     tokens
<1>3. ASSUME NEW c \in Client, Locks(c) \/ Rechecks(c) \/ Awaits(c) PROVE FileTypes'
  BY <1>3 DEF Locks, Rechecks, Awaits, FileTypes, files, caching, sweeps,
     tokens
<1>4. ASSUME NEW c \in Client, Copies(c) \/ Publishes(c) \/ Fetches(c) PROVE FileTypes'
  BY <1>4 DEF Copies, Publishes, Fetches, FileTypes, files, caching, sweeps,
     tokens, Recon, Keeps, Yesterday, Fills, Fails, Is
<1>5. ASSUME NEW c \in Client, Streams(c) \/ Opens(c) \/ Requests(c) PROVE FileTypes'
  BY <1>5 DEF Streams, Opens, Requests, FileTypes, files, caching, sweeps,
     tokens, Recon, Keeps, Yesterday, Fills, Fails, Is
<1>6. ASSUME NEW c \in Client, Redirects(c) \/ Serves(c) \/ Follows(c) PROVE FileTypes'
  BY <1>6 DEF Redirects, Serves, Follows, FileTypes, files, caching, sweeps,
     tokens, Keeps
<1>7. ASSUME NEW c \in Client, Shares(c) \/ Materializes(c) \/ Shared(c) PROVE FileTypes'
  BY <1>7 DEF Shares, Materializes, Shared, FileTypes, files, caching, sweeps,
     tokens
<1>8. ASSUME NEW c \in Client, Registers(c) \/ Hands(c) \/ Refuses(c) PROVE FileTypes'
  BY <1>8 DEF Registers, Hands, Refuses, FileTypes, files, caching, sweeps,
     tokens, Yesterday
<1>9. CASE (\E r \in Resource : Idles(r)) \/ Minute \/ Day \/ Stops \/ StopsSftp \/ Removes
  BY <1>9 DEF Idles, Minute, Day, Stops, StopsSftp, Removes, FileTypes, files,
     caching, sweeps, tokens
<1> QED
  BY <1>1, <1>2, <1>3, <1>4, <1>5, <1>6, <1>7, <1>8, <1>9 DEF Next, Works

LEMMA CacheStep == ASSUME RequestTypes, CacheTypes, Next PROVE CacheTypes'
<1>1. ASSUME NEW c \in Client, Answers(c) \/ Late(c) \/ Resolves(c) PROVE CacheTypes'
  BY <1>1, RequestsOf DEF Answers, Late, Resolves, CacheTypes, caching, history
<1>2. ASSUME NEW c \in Client, Checks(c) \/ Reserves(c) \/ Sweeps(c) PROVE CacheTypes'
  BY <1>2, RequestsOf DEF Checks, Reserves, Sweeps, CacheTypes, caching,
     history, States
<1>3. ASSUME NEW c \in Client, Locks(c) \/ Rechecks(c) \/ Awaits(c) PROVE CacheTypes'
  BY <1>3, RequestsOf DEF Locks, Rechecks, Awaits, CacheTypes, caching, history
<1>4. ASSUME NEW c \in Client, Copies(c) \/ Publishes(c) \/ Fetches(c) PROVE CacheTypes'
  BY <1>4, RequestsOf DEF Copies, Publishes, Fetches, CacheTypes, caching,
     history, Fills, Fails, Writing, States, Is
<1>5. ASSUME NEW c \in Client, Streams(c) \/ Opens(c) \/ Requests(c) PROVE CacheTypes'
  BY <1>5, RequestsOf DEF Streams, Opens, Requests, CacheTypes, caching,
     history, Fills, Fails, Writing, States, Is
<1>6. ASSUME NEW c \in Client, Redirects(c) \/ Serves(c) \/ Follows(c) PROVE CacheTypes'
  BY <1>6, RequestsOf DEF Redirects, Serves, Follows, CacheTypes, caching,
     history, Fills, Fails, Writing, States, Is
<1>7. ASSUME NEW c \in Client, Shares(c) \/ Materializes(c) \/ Shared(c) PROVE CacheTypes'
  BY <1>7, RequestsOf DEF Shares, Materializes, Shared, CacheTypes, caching,
     history
<1>8. ASSUME NEW c \in Client, Registers(c) \/ Hands(c) \/ Refuses(c) PROVE CacheTypes'
  BY <1>8, RequestsOf DEF Registers, Hands, Refuses, CacheTypes, caching,
     history
<1>9. CASE (\E r \in Resource : Idles(r)) \/ Minute \/ Day \/ Stops \/ StopsSftp \/ Removes
  BY <1>9, RequestsOf DEF Idles, Minute, Day, Stops, StopsSftp, Removes,
     CacheTypes, caching, history, States
<1> QED
  BY <1>1, <1>2, <1>3, <1>4, <1>5, <1>6, <1>7, <1>8, <1>9 DEF Next, Works

LEMMA LockStep == ASSUME LockTypes, Next PROVE LockTypes'
<1>1. ASSUME NEW c \in Client, Answers(c) \/ Late(c) \/ Resolves(c) \/ Checks(c) \/ Reserves(c)
       PROVE LockTypes'
  BY <1>1 DEF Answers, Late, Resolves, Checks, Reserves, LockTypes
<1>2. ASSUME NEW c \in Client, Sweeps(c) \/ Locks(c) \/ Rechecks(c) \/ Awaits(c) \/ Copies(c)
       PROVE LockTypes'
  BY <1>2 DEF Sweeps, Locks, Rechecks, Awaits, Copies, LockTypes, Frees, Fails,
     Is
<1>3. ASSUME NEW c \in Client, Publishes(c) \/ Fetches(c) \/ Streams(c) \/ Opens(c) \/
       Requests(c) PROVE LockTypes'
  BY <1>3 DEF Publishes, Fetches, Streams, Opens, Requests, LockTypes, Frees,
     Fails, Is
<1>4. ASSUME NEW c \in Client, Redirects(c) \/ Serves(c) \/ Follows(c) \/ Shares(c) \/
       Materializes(c) PROVE LockTypes'
  BY <1>4 DEF Redirects, Serves, Follows, Shares, Materializes, LockTypes,
     Frees, Fails, Is
<1>5. ASSUME NEW c \in Client, Shared(c) \/ Registers(c) \/ Hands(c) \/ Refuses(c) PROVE
       LockTypes'
  BY <1>5 DEF Shared, Registers, Hands, Refuses, LockTypes
<1>6. CASE (\E r \in Resource : Idles(r)) \/ Minute \/ Day \/ Stops \/ StopsSftp \/ Removes
  BY <1>6 DEF Idles, Minute, Day, Stops, StopsSftp, Removes, LockTypes
<1> QED
  BY <1>1, <1>2, <1>3, <1>4, <1>5, <1>6 DEF Next, Works

LEMMA SpoilTypes ==
  ASSUME CountTypes, NEW c \in Client, UNCHANGED pulls, UNCHANGED spoilt \/ Spoils(c)
  PROVE  CountTypes'
BY DEF CountTypes, Spoils

LEMMA TroubleTypes ==
  ASSUME PhaseTypes, UNCHANGED stop, UNCHANGED trouble \/ \E what \in faults : Trouble(what)
  PROVE  PhaseTypes'
BY DownloadsAssumption DEF PhaseTypes, Trouble

LEMMA CountStep == ASSUME CountTypes, Next PROVE CountTypes'
<1>1. ASSUME NEW c \in Client, Sweeps(c) PROVE CountTypes'
  BY <1>1 DEF Sweeps, CountTypes
<1>2. ASSUME NEW c \in Client, Rechecks(c) PROVE CountTypes'
  BY <1>2 DEF Rechecks, CountTypes
<1>3. ASSUME NEW c \in Client, Awaits(c) PROVE CountTypes'
  BY <1>3 DEF Awaits, CountTypes, Spoils, Fails
<1>4. ASSUME NEW c \in Client, Copies(c) PROVE CountTypes'
  <2>1. UNCHANGED pulls /\ (UNCHANGED spoilt \/ Spoils(c)) BY <1>4 DEF Copies, Fails
  <2> QED BY <2>1, SpoilTypes
<1>5. ASSUME NEW c \in Client, Publishes(c) PROVE CountTypes'
  <2>1. UNCHANGED pulls /\ (UNCHANGED spoilt \/ Spoils(c)) BY <1>5 DEF Publishes, Fails
  <2> QED BY <2>1, SpoilTypes
<1>6. ASSUME NEW c \in Client, Streams(c) PROVE CountTypes'
  <2>1. UNCHANGED pulls /\ (UNCHANGED spoilt \/ Spoils(c)) BY <1>6 DEF Streams, Fails
  <2> QED BY <2>1, SpoilTypes
<1>7. CASE Removes
  BY <1>7 DEF Removes, CountTypes
<1>8. ASSUME NEW c \in Client, Answers(c) \/ Late(c) \/ Resolves(c) \/ Checks(c) PROVE
       CountTypes'
  BY <1>8 DEF Answers, Late, Resolves, Checks, CountTypes, history
<1>9. ASSUME NEW c \in Client, Reserves(c) \/ Locks(c) \/ Fetches(c) \/ Opens(c) PROVE
       CountTypes'
  BY <1>9 DEF Reserves, Locks, Fetches, Opens, CountTypes, Spoils, Fails,
     history, Is
<1>10. ASSUME NEW c \in Client, Requests(c) \/ Redirects(c) \/ Serves(c) \/ Follows(c) PROVE
       CountTypes'
  BY <1>10 DEF Requests, Redirects, Serves, Follows, CountTypes, Spoils, Fails,
     history, Is
<1>11. ASSUME NEW c \in Client, Shares(c) \/ Materializes(c) \/ Shared(c) \/ Registers(c) PROVE
       CountTypes'
  BY <1>11 DEF Shares, Materializes, Shared, Registers, CountTypes, history
<1>12. ASSUME NEW c \in Client, Hands(c) \/ Refuses(c) PROVE CountTypes'
  BY <1>12 DEF Hands, Refuses, CountTypes, history
<1>13. CASE (\E r \in Resource : Idles(r)) \/ Minute \/ Day \/ Stops \/ StopsSftp
  BY <1>13 DEF Idles, Minute, Day, Stops, StopsSftp, CountTypes, history
<1> QED
  BY <1>1, <1>2, <1>3, <1>4, <1>5, <1>6, <1>7, <1>8, <1>9, <1>10, <1>11, <1>12,
     <1>13 DEF Next, Works

LEMMA PhaseStep == ASSUME PhaseTypes, Next PROVE PhaseTypes'
<1> USE DownloadsAssumption DEF DownloadsAssumption
<1>1. ASSUME NEW c \in Client, Resolves(c) PROVE PhaseTypes'
  BY <1>1 DEF Resolves, PhaseTypes, Calm, Trouble
<1>2. ASSUME NEW c \in Client, Awaits(c) PROVE PhaseTypes'
  BY <1>2 DEF Awaits, PhaseTypes, Calm, Trouble
<1>3. ASSUME NEW c \in Client, Copies(c) PROVE PhaseTypes'
  BY <1>3 DEF Copies, PhaseTypes, Calm
<1>4. ASSUME NEW c \in Client, Publishes(c) PROVE PhaseTypes'
  <2>1. UNCHANGED stop /\ (Calm \/ \E what \in {"disk", "slow", "stall"} : Trouble(what))
    BY <1>4 DEF Publishes
  <2>2. UNCHANGED trouble \/ \E what \in faults : Trouble(what) BY <2>1 DEF Calm, Trouble
  <2> QED BY <2>1, <2>2, TroubleTypes
<1>5. ASSUME NEW c \in Client, Fetches(c) PROVE PhaseTypes'
  <2>1. UNCHANGED stop /\ (Calm \/ \E what \in {"disk", "slow", "stall"} : Trouble(what))
    BY <1>5 DEF Fetches
  <2>2. UNCHANGED trouble \/ \E what \in faults : Trouble(what) BY <2>1 DEF Calm, Trouble
  <2> QED BY <2>1, <2>2, TroubleTypes
<1>6. ASSUME NEW c \in Client, Streams(c) PROVE PhaseTypes'
  <2>1. UNCHANGED stop /\ (Calm \/ \E what \in {"disk", "slow", "stall"} : Trouble(what))
    BY <1>6 DEF Streams
  <2>2. UNCHANGED trouble \/ \E what \in faults : Trouble(what) BY <2>1 DEF Calm, Trouble
  <2> QED BY <2>1, <2>2, TroubleTypes
<1>7. ASSUME NEW c \in Client, Serves(c) PROVE PhaseTypes'
  <2>1. UNCHANGED stop /\ (Calm \/ \E what \in {"disk", "slow", "stall"} : Trouble(what))
    BY <1>7 DEF Serves
  <2>2. UNCHANGED trouble \/ \E what \in faults : Trouble(what) BY <2>1 DEF Calm, Trouble
  <2> QED BY <2>1, <2>2, TroubleTypes
<1>8. ASSUME NEW c \in Client, Follows(c) PROVE PhaseTypes'
  BY <1>8 DEF Follows, PhaseTypes, Calm, Trouble
<1>9. ASSUME NEW c \in Client, Shared(c) PROVE PhaseTypes'
  BY <1>9 DEF Shared, PhaseTypes, Calm, Trouble
<1>10. ASSUME NEW c \in Client, Answers(c) \/ Late(c) \/ Checks(c) \/ Reserves(c) \/ Sweeps(c)
       PROVE PhaseTypes'
  BY <1>10 DEF Answers, Late, Checks, Reserves, Sweeps, PhaseTypes, Calm
<1>11. ASSUME NEW c \in Client, Locks(c) \/ Rechecks(c) \/ Opens(c) \/ Requests(c) \/
       Redirects(c) PROVE PhaseTypes'
  BY <1>11 DEF Locks, Rechecks, Opens, Requests, Redirects, PhaseTypes, Calm
<1>12. ASSUME NEW c \in Client, Shares(c) \/ Materializes(c) \/ Registers(c) \/ Hands(c) \/
       Refuses(c) PROVE PhaseTypes'
  BY <1>12 DEF Shares, Materializes, Registers, Hands, Refuses, PhaseTypes,
     Calm, Trouble
<1>13. CASE (\E r \in Resource : Idles(r)) \/ Minute \/ Day \/ Stops \/ StopsSftp \/ Removes
  BY <1>13 DEF Idles, Minute, Day, Stops, StopsSftp, Removes, PhaseTypes, Calm,
     Trouble
<1> QED
  BY <1>1, <1>2, <1>3, <1>4, <1>5, <1>6, <1>7, <1>8, <1>9, <1>10, <1>11, <1>12,
     <1>13 DEF Next, Works

LEMMA TypesStep == ASSUME TypeOK, Next PROVE TypeOK'
<1> USE DEF RequestTypes, CallTypes, FileTypes, CacheTypes, LockTypes, CountTypes, PhaseTypes
<1>1. /\ RequestTypes /\ CallTypes /\ FileTypes /\ CacheTypes /\ LockTypes /\ CountTypes
      /\ PhaseTypes
  BY DEF TypeOK
<1>2. /\ RequestTypes' /\ CallTypes' /\ FileTypes' /\ CacheTypes' /\ LockTypes' /\ CountTypes'
      /\ PhaseTypes'
  BY <1>1, RequestStep, CallStep, FileStep, CacheStep, LockStep, CountStep,
     PhaseStep
<1> QED BY <1>2 DEF TypeOK

(* The locks: taken, freed, or left alone. *)
Holding == {"held"} \cup Pulling

LEMMA QuietLocks ==
  ASSUME LocksOK, UNCHANGED <<job, lock>>,
         \A d \in Client : job[d].kind = "sftp" => (at'[d] \in Holding <=> at[d] \in Holding)
  PROVE  LocksOK'
BY DEF LocksOK, Holder, Holding, Of

LEMMA FreesLock ==
  ASSUME TypeOK, LocksOK, NEW c \in Client, job[c].kind = "sftp", at[c] \in Holding, UNCHANGED job,
         lock' = Frees(c), NEW w \in Places \ Holding, Goes(c, w)
  PROVE  LocksOK'
<1> SUFFICES ASSUME NEW r \in Resource, NEW d \in Client
             PROVE  lock'[r] = d <=> Holder(r, d)'
  BY DEF LocksOK
<1>1. lock[Of(c)] = c BY RequestsOf DEF LocksOK, Holder, Holding, TypeOK, RequestTypes
<1>2. at'[d] = IF d = c THEN w ELSE at[d] BY DEF Goes, TypeOK
<1>3. lock'[r] = IF r = Of(c) THEN None ELSE lock[r] BY DEF Frees, TypeOK
<1>4. None \notin Client BY DownloadsAssumption DEF DownloadsAssumption
<1>5. lock[r] = d <=> Holder(r, d) BY DEF LocksOK
<1> QED BY <1>1, <1>2, <1>3, <1>4, <1>5 DEF Holder, Holding, Of

LEMMA LocksStep == ASSUME TypeOK, LocksOK, Next PROVE LocksOK'
<1>1. ASSUME NEW c \in Client, Answers(c) PROVE LocksOK'
  <2>1. UNCHANGED <<job, lock>> BY <1>1 DEF Answers, setup
  <2>2. \A d \in Client : job[d].kind = "sftp" => (at'[d] \in Holding <=> at[d] \in Holding)
    BY <1>1 DEF Answers, Is, Goes
  <2> QED BY <2>1, <2>2, QuietLocks
<1>2. ASSUME NEW c \in Client, Late(c) PROVE LocksOK'
  <2>1. UNCHANGED <<job, lock>> BY <1>2 DEF Late, setup
  <2>2. \A d \in Client : job[d].kind = "sftp" => (at'[d] \in Holding <=> at[d] \in Holding)
    BY <1>2 DEF Late, Is, Goes
  <2> QED BY <2>1, <2>2, QuietLocks
<1>3. ASSUME NEW c \in Client, Resolves(c) PROVE LocksOK'
  <2>1. UNCHANGED <<job, lock>> BY <1>3 DEF Resolves, setup
  <2>2. \A d \in Client : job[d].kind = "sftp" => (at'[d] \in Holding <=> at[d] \in Holding)
    BY <1>3 DEF Resolves, Is, Goes, TypeOK, Holding, Pulling
  <2> QED BY <2>1, <2>2, QuietLocks
<1>4. ASSUME NEW c \in Client, Checks(c) PROVE LocksOK'
  <2>1. UNCHANGED <<job, lock>> BY <1>4 DEF Checks, setup
  <2>2. \A d \in Client : job[d].kind = "sftp" => (at'[d] \in Holding <=> at[d] \in Holding)
    BY <1>4 DEF Checks, Is, Goes, Holding, Pulling
  <2> QED BY <2>1, <2>2, QuietLocks
<1>5. ASSUME NEW c \in Client, Reserves(c) PROVE LocksOK'
  <2>1. UNCHANGED <<job, lock>> BY <1>5 DEF Reserves, setup
  <2>2. \A d \in Client : job[d].kind = "sftp" => (at'[d] \in Holding <=> at[d] \in Holding)
    BY <1>5 DEF Reserves, Is, Goes, TypeOK, Holding, Pulling
  <2> QED BY <2>1, <2>2, QuietLocks
<1>6. ASSUME NEW c \in Client, Sweeps(c) PROVE LocksOK'
  <2>1. UNCHANGED <<job, lock>> BY <1>6 DEF Sweeps, setup
  <2>2. \A d \in Client : job[d].kind = "sftp" => (at'[d] \in Holding <=> at[d] \in Holding)
    BY <1>6 DEF Sweeps, Is, Goes, Holding, Pulling
  <2> QED BY <2>1, <2>2, QuietLocks
<1>7. ASSUME NEW c \in Client, Locks(c) PROVE LocksOK'
  <2> SUFFICES ASSUME NEW r \in Resource, NEW d \in Client
               PROVE  lock'[r] = d <=> Holder(r, d)'
    BY DEF LocksOK
  <2>1. /\ job' = job /\ lock[Of(c)] = None /\ job[c].kind = "sftp" /\ at[c] = "lock"
        /\ lock' = [lock EXCEPT ![Of(c)] = c] /\ Goes(c, "held")
    BY <1>7 DEF Locks, Is, setup
  <2>2. at'[d] = IF d = c THEN "held" ELSE at[d] BY <2>1 DEF Goes, TypeOK
  <2>3. lock'[r] = IF r = Of(c) THEN c ELSE lock[r] BY <2>1 DEF TypeOK
  <2>4. None \notin Client BY DownloadsAssumption DEF DownloadsAssumption
  <2>5. lock[r] = d <=> Holder(r, d) BY DEF LocksOK
  <2> QED BY <2>1, <2>2, <2>3, <2>4, <2>5 DEF Holder, Holding, Pulling, Of
<1>8. ASSUME NEW c \in Client, Rechecks(c) PROVE LocksOK'
  <2>1. job' = job /\ job[c].kind = "sftp" /\ at[c] \in Holding BY <1>8 DEF Rechecks, Is, setup, Holding, Pulling
  <2>2. ASSUME NEW w \in {"open", "failed"}, Goes(c, w), lock' = Frees(c) PROVE LocksOK'
    BY <2>1, <2>2, FreesLock DEF Places, Holding, Pulling
  <2>3. ASSUME NEW w \in Holding, Goes(c, w), UNCHANGED lock PROVE LocksOK'
    <3>2. \A d \in Client : job[d].kind = "sftp" => (at'[d] \in Holding <=> at[d] \in Holding)
      BY <2>1, <2>3 DEF Goes
    <3> QED BY <2>1, <2>3, <3>2, QuietLocks
  <2>4. \/ \E w \in {"open", "failed"} : Goes(c, w) /\ lock' = Frees(c)
        \/ \E w \in {"copy", "stream", "publish", "info"} : Goes(c, w) /\ UNCHANGED lock
    BY <1>8 DEF Rechecks
  <2> QED BY <2>2, <2>3, <2>4 DEF Holding, Pulling
<1>9. ASSUME NEW c \in Client, Awaits(c) PROVE LocksOK'
  <2>1. job' = job /\ job[c].kind = "sftp" /\ at[c] \in Holding BY <1>9 DEF Awaits, Is, setup, Holding, Pulling
  <2>2. ASSUME NEW w \in {"open", "failed"}, Goes(c, w), lock' = Frees(c) PROVE LocksOK'
    BY <2>1, <2>2, FreesLock DEF Places, Holding, Pulling
  <2>3. ASSUME NEW w \in Holding, Goes(c, w), UNCHANGED lock PROVE LocksOK'
    <3>2. \A d \in Client : job[d].kind = "sftp" => (at'[d] \in Holding <=> at[d] \in Holding)
      BY <2>1, <2>3 DEF Goes
    <3> QED BY <2>1, <2>3, <3>2, QuietLocks
  <2>4. \/ \E w \in {"open", "failed"} : Goes(c, w) /\ lock' = Frees(c)
        \/ \E w \in {"copy", "stream", "publish", "info"} : Goes(c, w) /\ UNCHANGED lock
    BY <1>9 DEF Awaits, Fails
  <2> QED BY <2>2, <2>3, <2>4 DEF Holding, Pulling
<1>10. ASSUME NEW c \in Client, Copies(c) PROVE LocksOK'
  <2>1. job' = job /\ job[c].kind = "sftp" /\ at[c] \in Holding BY <1>10 DEF Copies, Is, setup, Holding, Pulling
  <2>2. ASSUME NEW w \in {"open", "failed"}, Goes(c, w), lock' = Frees(c) PROVE LocksOK'
    BY <2>1, <2>2, FreesLock DEF Places, Holding, Pulling
  <2>3. ASSUME NEW w \in Holding, Goes(c, w), UNCHANGED lock PROVE LocksOK'
    <3>2. \A d \in Client : job[d].kind = "sftp" => (at'[d] \in Holding <=> at[d] \in Holding)
      BY <2>1, <2>3 DEF Goes
    <3> QED BY <2>1, <2>3, <3>2, QuietLocks
  <2>4. \/ \E w \in {"open", "failed"} : Goes(c, w) /\ lock' = Frees(c)
        \/ \E w \in {"copy", "stream", "publish", "info"} : Goes(c, w) /\ UNCHANGED lock
    BY <1>10 DEF Copies, Fails
  <2> QED BY <2>2, <2>3, <2>4 DEF Holding, Pulling
<1>11. ASSUME NEW c \in Client, Publishes(c) PROVE LocksOK'
  <2>1. job' = job /\ job[c].kind = "sftp" /\ at[c] \in Holding BY <1>11 DEF Publishes, Is, setup, Holding, Pulling
  <2>2. ASSUME NEW w \in {"open", "failed"}, Goes(c, w), lock' = Frees(c) PROVE LocksOK'
    BY <2>1, <2>2, FreesLock DEF Places, Holding, Pulling
  <2>3. ASSUME NEW w \in Holding, Goes(c, w), UNCHANGED lock PROVE LocksOK'
    <3>2. \A d \in Client : job[d].kind = "sftp" => (at'[d] \in Holding <=> at[d] \in Holding)
      BY <2>1, <2>3 DEF Goes
    <3> QED BY <2>1, <2>3, <3>2, QuietLocks
  <2>4. \/ \E w \in {"open", "failed"} : Goes(c, w) /\ lock' = Frees(c)
        \/ \E w \in {"copy", "stream", "publish", "info"} : Goes(c, w) /\ UNCHANGED lock
    BY <1>11 DEF Publishes, Fails
  <2> QED BY <2>2, <2>3, <2>4 DEF Holding, Pulling
<1>12. ASSUME NEW c \in Client, Fetches(c) PROVE LocksOK'
  <2>1. UNCHANGED <<job, lock>> BY <1>12 DEF Fetches, setup
  <2>2. \A d \in Client : job[d].kind = "sftp" => (at'[d] \in Holding <=> at[d] \in Holding)
    BY <1>12 DEF Fetches, Is, Goes, TypeOK, Holding, Pulling
  <2> QED BY <2>1, <2>2, QuietLocks
<1>13. ASSUME NEW c \in Client, Streams(c) PROVE LocksOK'
  <2>1. job' = job /\ job[c].kind = "sftp" /\ at[c] \in Holding BY <1>13 DEF Streams, Is, setup, Holding, Pulling
  <2>2. ASSUME NEW w \in {"open", "failed"}, Goes(c, w), lock' = Frees(c) PROVE LocksOK'
    BY <2>1, <2>2, FreesLock DEF Places, Holding, Pulling
  <2>3. ASSUME NEW w \in Holding, Goes(c, w), UNCHANGED lock PROVE LocksOK'
    <3>2. \A d \in Client : job[d].kind = "sftp" => (at'[d] \in Holding <=> at[d] \in Holding)
      BY <2>1, <2>3 DEF Goes
    <3> QED BY <2>1, <2>3, <3>2, QuietLocks
  <2>4. \/ \E w \in {"open", "failed"} : Goes(c, w) /\ lock' = Frees(c)
        \/ \E w \in {"copy", "stream", "publish", "info"} : Goes(c, w) /\ UNCHANGED lock
    BY <1>13 DEF Streams, Fails
  <2> QED BY <2>2, <2>3, <2>4 DEF Holding, Pulling
<1>14. ASSUME NEW c \in Client, Opens(c) PROVE LocksOK'
  <2>1. UNCHANGED <<job, lock>> BY <1>14 DEF Opens, setup
  <2>2. \A d \in Client : job[d].kind = "sftp" => (at'[d] \in Holding <=> at[d] \in Holding)
    BY <1>14 DEF Opens, Is, Goes, Holding, Pulling
  <2> QED BY <2>1, <2>2, QuietLocks
<1>15. ASSUME NEW c \in Client, Requests(c) PROVE LocksOK'
  <2>1. UNCHANGED <<job, lock>> BY <1>15 DEF Requests, setup
  <2>2. \A d \in Client : job[d].kind = "sftp" => (at'[d] \in Holding <=> at[d] \in Holding)
    BY <1>15 DEF Requests, Is, Goes, TypeOK, Holding, Pulling
  <2> QED BY <2>1, <2>2, QuietLocks
<1>16. ASSUME NEW c \in Client, Redirects(c) PROVE LocksOK'
  <2>1. UNCHANGED <<job, lock>> BY <1>16 DEF Redirects, setup
  <2>2. \A d \in Client : job[d].kind = "sftp" => (at'[d] \in Holding <=> at[d] \in Holding)
    BY <1>16 DEF Redirects, Is, Goes, TypeOK, Holding, Pulling
  <2> QED BY <2>1, <2>2, QuietLocks
<1>17. ASSUME NEW c \in Client, Serves(c) PROVE LocksOK'
  <2>1. UNCHANGED <<job, lock>> BY <1>17 DEF Serves, setup
  <2>2. \A d \in Client : job[d].kind = "sftp" => (at'[d] \in Holding <=> at[d] \in Holding)
    BY <1>17 DEF Serves, Is, Goes, TypeOK, Holding, Pulling
  <2> QED BY <2>1, <2>2, QuietLocks
<1>18. ASSUME NEW c \in Client, Follows(c) PROVE LocksOK'
  <2>1. UNCHANGED <<job, lock>> BY <1>18 DEF Follows, setup
  <2>2. \A d \in Client : job[d].kind = "sftp" => (at'[d] \in Holding <=> at[d] \in Holding)
    BY <1>18 DEF Follows, Is, Goes, TypeOK, Holding, Pulling
  <2> QED BY <2>1, <2>2, QuietLocks
<1>19. ASSUME NEW c \in Client, Shares(c) PROVE LocksOK'
  <2>1. UNCHANGED <<job, lock>> BY <1>19 DEF Shares, setup
  <2>2. \A d \in Client : job[d].kind = "sftp" => (at'[d] \in Holding <=> at[d] \in Holding)
    BY <1>19 DEF Shares, Is, Goes
  <2> QED BY <2>1, <2>2, QuietLocks
<1>20. ASSUME NEW c \in Client, Materializes(c) PROVE LocksOK'
  <2>1. UNCHANGED <<job, lock>> BY <1>20 DEF Materializes, setup
  <2>2. \A d \in Client : job[d].kind = "sftp" => (at'[d] \in Holding <=> at[d] \in Holding)
    BY <1>20 DEF Materializes, Is, Goes
  <2> QED BY <2>1, <2>2, QuietLocks
<1>21. ASSUME NEW c \in Client, Shared(c) PROVE LocksOK'
  <2>1. UNCHANGED <<job, lock>> BY <1>21 DEF Shared, setup
  <2>2. \A d \in Client : job[d].kind = "sftp" => (at'[d] \in Holding <=> at[d] \in Holding)
    BY <1>21 DEF Shared, Is, Goes, TypeOK, Holding, Pulling
  <2> QED BY <2>1, <2>2, QuietLocks
<1>22. ASSUME NEW c \in Client, Registers(c) PROVE LocksOK'
  <2>1. UNCHANGED <<job, lock>> BY <1>22 DEF Registers, setup
  <2>2. \A d \in Client : job[d].kind = "sftp" => (at'[d] \in Holding <=> at[d] \in Holding)
    BY <1>22 DEF Registers, Is, Goes
  <2> QED BY <2>1, <2>2, QuietLocks
<1>23. ASSUME NEW c \in Client, Hands(c) PROVE LocksOK'
  <2>1. UNCHANGED <<job, lock>> BY <1>23 DEF Hands, setup
  <2>2. \A d \in Client : job[d].kind = "sftp" => (at'[d] \in Holding <=> at[d] \in Holding)
    BY <1>23 DEF Hands, Is, Goes
  <2> QED BY <2>1, <2>2, QuietLocks
<1>24. ASSUME NEW c \in Client, Refuses(c) PROVE LocksOK'
  <2>1. UNCHANGED <<job, lock>> BY <1>24 DEF Refuses, setup
  <2>2. \A d \in Client : job[d].kind = "sftp" => (at'[d] \in Holding <=> at[d] \in Holding)
    BY <1>24 DEF Refuses, Is, Goes
  <2> QED BY <2>1, <2>2, QuietLocks
<1>25. ASSUME NEW r \in Resource, Idles(r) PROVE LocksOK'
  <2>1. UNCHANGED <<job, lock>> BY <1>25 DEF Idles, setup
  <2>2. \A d \in Client : job[d].kind = "sftp" => (at'[d] \in Holding <=> at[d] \in Holding)
    BY <1>25 DEF Idles, Is, Goes
  <2> QED BY <2>1, <2>2, QuietLocks
<1>26. CASE Minute
  <2>1. UNCHANGED <<job, lock>> BY <1>26 DEF Minute, setup
  <2>2. \A d \in Client : job[d].kind = "sftp" => (at'[d] \in Holding <=> at[d] \in Holding)
    BY <1>26 DEF Minute, Is, Goes
  <2> QED BY <2>1, <2>2, QuietLocks
<1>27. CASE Day
  <2>1. UNCHANGED <<job, lock>> BY <1>27 DEF Day, setup
  <2>2. \A d \in Client : job[d].kind = "sftp" => (at'[d] \in Holding <=> at[d] \in Holding)
    BY <1>27 DEF Day, Is, Goes
  <2> QED BY <2>1, <2>2, QuietLocks
<1>28. CASE Stops
  <2>1. UNCHANGED <<job, lock>> BY <1>28 DEF Stops, setup
  <2>2. \A d \in Client : job[d].kind = "sftp" => (at'[d] \in Holding <=> at[d] \in Holding)
    BY <1>28 DEF Stops, Is, Goes
  <2> QED BY <2>1, <2>2, QuietLocks
<1>29. CASE StopsSftp
  <2>1. UNCHANGED <<job, lock>> BY <1>29 DEF StopsSftp, setup
  <2>2. \A d \in Client : job[d].kind = "sftp" => (at'[d] \in Holding <=> at[d] \in Holding)
    BY <1>29 DEF StopsSftp, Is, Goes
  <2> QED BY <2>1, <2>2, QuietLocks
<1>30. CASE Removes
  <2>1. UNCHANGED <<job, lock>> BY <1>30 DEF Removes, setup
  <2>2. \A d \in Client : job[d].kind = "sftp" => (at'[d] \in Holding <=> at[d] \in Holding)
    BY <1>30 DEF Removes, Is, Goes
  <2> QED BY <2>1, <2>2, QuietLocks
<1> QED
  BY <1>1, <1>2, <1>3, <1>4, <1>5, <1>6, <1>7, <1>8, <1>9, <1>10, <1>11, <1>12,
     <1>13, <1>14,
     <1>15, <1>16, <1>17, <1>18, <1>19, <1>20, <1>21, <1>22, <1>23, <1>24, <1>25, <1>26, <1>27,
     <1>28, <1>29, <1>30 DEF Next, Works

(* What is waited for. *)
LEMMA WaitedStep == ASSUME DownloadsInv, Next PROVE Waited'
<1> USE DEF DownloadsInv, TypeOK, Waited
<1>1. ASSUME NEW c \in Client, Rechecks(c) PROVE Waited'
  BY <1>1 DEF Rechecks, Goes, Asks, Is
<1>2. ASSUME NEW c \in Client, Awaits(c) PROVE Waited'
  <2>1. \A d \in Client : call'[d] = "info" => d # c /\ call[d] = "info"
    BY <1>2 DEF Awaits
  <2>2. \A d \in Client \ {c} : at'[d] = at[d] BY <1>2 DEF Awaits, Goes, Fails
  <2> QED BY <2>1, <2>2
<1>3. ASSUME NEW c \in Client, Fetches(c) PROVE Waited'
  BY <1>3 DEF Fetches, Goes
<1>4. ASSUME NEW c \in Client, Streams(c) PROVE Waited'
  <2>1. \A d \in Client : call'[d] = "info" => d # c /\ call[d] = "info"
    BY <1>4 DEF Streams
  <2>2. \A d \in Client \ {c} : at'[d] = at[d] BY <1>4 DEF Streams, Goes, Fails
  <2> QED BY <2>1, <2>2
<1>5. ASSUME NEW c \in Client, Requests(c) PROVE Waited'
  BY <1>5 DEF Requests, Is, Asks, Goes
<1>6. ASSUME NEW c \in Client, Shares(c) PROVE Waited'
  BY <1>6 DEF Shares, Is, Asks, Goes
<1>7. ASSUME NEW c \in Client, Answers(c) PROVE Waited'
  BY <1>7 DEF Answers
<1>8. ASSUME NEW c \in Client, Late(c) PROVE Waited'
  BY <1>8 DEF Late
<1>9. ASSUME NEW c \in Client, Resolves(c) PROVE Waited'
  BY <1>9 DEF Resolves, Is, Goes
<1>10. ASSUME NEW c \in Client, Checks(c) PROVE Waited'
  BY <1>10 DEF Checks, Is, Goes
<1>11. ASSUME NEW c \in Client, Reserves(c) PROVE Waited'
  BY <1>11 DEF Reserves, Is, Goes
<1>12. ASSUME NEW c \in Client, Sweeps(c) PROVE Waited'
  BY <1>12 DEF Sweeps, Is, Goes
<1>13. ASSUME NEW c \in Client, Locks(c) PROVE Waited'
  BY <1>13 DEF Locks, Is, Goes
<1>14. ASSUME NEW c \in Client, Copies(c) PROVE Waited'
  BY <1>14 DEF Copies, Is, Goes, Fails
<1>15. ASSUME NEW c \in Client, Publishes(c) PROVE Waited'
  BY <1>15 DEF Publishes, Is, Goes, Fails
<1>16. ASSUME NEW c \in Client, Opens(c) PROVE Waited'
  BY <1>16 DEF Opens, Is, Goes
<1>17. ASSUME NEW c \in Client, Redirects(c) PROVE Waited'
  BY <1>17 DEF Redirects, Is, Goes
<1>18. ASSUME NEW c \in Client, Serves(c) PROVE Waited'
  BY <1>18 DEF Serves, Is, Goes
<1>19. ASSUME NEW c \in Client, Follows(c) PROVE Waited'
  BY <1>19 DEF Follows, Is, Goes
<1>20. ASSUME NEW c \in Client, Materializes(c) PROVE Waited'
  BY <1>20 DEF Materializes, Is, Goes
<1>21. ASSUME NEW c \in Client, Shared(c) PROVE Waited'
  BY <1>21 DEF Shared, Is, Goes
<1>22. ASSUME NEW c \in Client, Registers(c) PROVE Waited'
  BY <1>22 DEF Registers, Is, Goes
<1>23. ASSUME NEW c \in Client, Hands(c) PROVE Waited'
  BY <1>23 DEF Hands, Is, Goes
<1>24. ASSUME NEW c \in Client, Refuses(c) PROVE Waited'
  BY <1>24 DEF Refuses
<1>25. CASE (\E r \in Resource : Idles(r)) \/ Minute \/ Day \/ Stops \/ StopsSftp \/ Removes
  BY <1>25 DEF Idles, Minute, Day, Stops, StopsSftp, Removes
<1> QED
  BY <1>1, <1>2, <1>3, <1>4, <1>5, <1>6, <1>7, <1>8, <1>9, <1>10, <1>11, <1>12,
     <1>13, <1>14, <1>15, <1>16, <1>17, <1>18, <1>19, <1>20, <1>21, <1>22, <1>23, <1>24,
     <1>25
     DEF Next, Works

LEMMA WholeStep == ASSUME DownloadsInv, Next PROVE Whole'
<1> USE DEF TypeOK, RequestTypes
<1>1. ASSUME NEW c \in Client, Sweeps(c) PROVE Whole'
  BY <1>1, RequestsOf DEF Sweeps, DownloadsInv, Whole, States, caching,
     history, Fills, Fails, Writing
<1>2. ASSUME NEW c \in Client, Rechecks(c) PROVE Whole'
  BY <1>2, RequestsOf DEF Rechecks, DownloadsInv, Whole, States, caching,
     history, Fills, Fails, Writing
<1>3. ASSUME NEW c \in Client, Awaits(c) PROVE Whole'
  BY <1>3, RequestsOf DEF Awaits, DownloadsInv, Whole, States, caching,
     history, Fills, Fails, Writing
<1>4. ASSUME NEW c \in Client, Copies(c) PROVE Whole'
  <2>1. cache' = [cache EXCEPT ![Of(c)] = cache[Of(c)]] \/ cache' = cache
    BY <1>4 DEF Copies, Fills, Writing, caching
  <2>2. opened' = opened BY <1>4 DEF Copies
  <2>3. cache \in [Resource -> States \ {"torn"}] BY DEF DownloadsInv, Whole
  <2>4. cache' = cache BY <2>1, <2>3
  <2> QED BY <2>2, <2>4 DEF DownloadsInv, Whole
<1>5. ASSUME NEW c \in Client, Publishes(c) PROVE Whole'
  <2>1. cache' = [cache EXCEPT ![Of(c)] = "whole"] \/ cache' = cache
    BY <1>5 DEF Publishes, Fills, caching
  <2>2. opened' = opened BY <1>5 DEF Publishes
  <2> QED BY <2>1, <2>2 DEF DownloadsInv, Whole, States
<1>6. ASSUME NEW c \in Client, Fetches(c) PROVE Whole'
  BY <1>6, RequestsOf DEF Fetches, DownloadsInv, Whole, States, caching,
     history, Fills, Fails, Writing
<1>7. ASSUME NEW c \in Client, Streams(c) PROVE Whole'
  BY <1>7, RequestsOf DEF Streams, DownloadsInv, Whole, States, caching,
     history, Fills, Fails, Writing
<1>8. ASSUME NEW c \in Client, Opens(c) PROVE Whole'
  BY <1>8, RequestsOf DEF Opens, DownloadsInv, Whole, States, caching, history,
     Fills, Fails, Writing
<1>9. CASE Removes
  BY <1>9, RequestsOf DEF Removes, DownloadsInv, Whole, States, caching,
     history, Fills, Fails, Writing
<1>10. ASSUME NEW c \in Client, Answers(c) \/ Late(c) \/ Resolves(c) PROVE Whole'
  BY <1>10, RequestsOf DEF Answers, Late, Resolves, DownloadsInv, Whole,
     States, caching, history, Fills, Fails, Writing, Is
<1>11. ASSUME NEW c \in Client, Checks(c) \/ Reserves(c) \/ Locks(c) PROVE Whole'
  BY <1>11, RequestsOf DEF Checks, Reserves, Locks, DownloadsInv, Whole,
     States, caching, history, Fills, Fails, Writing, Is
<1>12. ASSUME NEW c \in Client, Requests(c) \/ Redirects(c) \/ Serves(c) PROVE Whole'
  BY <1>12, RequestsOf DEF Requests, Redirects, Serves, DownloadsInv, Whole,
     States, caching, history, Fills, Fails, Writing, Is
<1>13. ASSUME NEW c \in Client, Follows(c) \/ Shares(c) \/ Materializes(c) PROVE Whole'
  BY <1>13, RequestsOf DEF Follows, Shares, Materializes, DownloadsInv, Whole,
     States, caching, history, Fills, Fails, Writing, Is
<1>14. ASSUME NEW c \in Client, Shared(c) \/ Registers(c) \/ Hands(c) PROVE Whole'
  BY <1>14, RequestsOf DEF Shared, Registers, Hands, DownloadsInv, Whole,
     States, caching, history, Fills, Fails, Writing, Is
<1>15. ASSUME NEW c \in Client, Refuses(c) PROVE Whole'
  BY <1>15, RequestsOf DEF Refuses, DownloadsInv, Whole, States, caching,
     history, Fills, Fails, Writing, Is
<1>16. CASE (\E r \in Resource : Idles(r)) \/ Minute \/ Day \/ Stops \/ StopsSftp
  BY <1>16, RequestsOf DEF Idles, Minute, Day, Stops, StopsSftp, DownloadsInv,
     Whole, States, caching, history, Fills, Fails, Writing, Is
<1> QED
  BY <1>1, <1>2, <1>3, <1>4, <1>5, <1>6, <1>7, <1>8, <1>9, <1>10, <1>11, <1>12,
     <1>13, <1>14,
     <1>15, <1>16 DEF Next, Works

(* The files of the service on disk. *)
LEMMA KeptStep == ASSUME DownloadsInv, Next PROVE Kept'
<1>1. ASSUME NEW c \in Client, Answers(c) PROVE Kept'
  <2>1. /\ call[c] = "info" /\ recons' = Recon(c) /\ call' = [call EXCEPT ![c] = "done"]
        /\ UNCHANGED <<at, job, split, left>>
    BY <1>1 DEF Answers, setup, history
  <2>2. at[c] = "info" BY <2>1 DEF DownloadsInv, Waited
  <2>3. recons' \subseteq recons \cup {c} /\ (c \in recons' => c \in recons \/ Of(c) \in split)
    BY <2>1 DEF Recon
  <2>4. \A d \in Client : call'[d] = IF d = c THEN "done" ELSE call[d]
    BY <2>1 DEF DownloadsInv, TypeOK
  <2>5. recons \subseteq Client BY DEF DownloadsInv, TypeOK
  <2> QED BY <2>1, <2>2, <2>3, <2>4, <2>5 DEF DownloadsInv, Kept, Of
<1>2. ASSUME NEW c \in Client, Late(c) PROVE Kept'
  BY <1>2 DEF Late, DownloadsInv, Kept, setup, Of
<1>3. ASSUME NEW c \in Client, Resolves(c) PROVE Kept'
  BY <1>3 DEF Resolves, DownloadsInv, TypeOK, Kept, Goes, Is, setup, files, history, Of
<1>4. ASSUME NEW c \in Client, Checks(c) PROVE Kept'
  BY <1>4 DEF Checks, DownloadsInv, Kept, Goes, Is, setup, files, history, Of
<1>5. ASSUME NEW c \in Client, Reserves(c) PROVE Kept'
  BY <1>5 DEF Reserves, DownloadsInv, TypeOK, Kept, Goes, Is, setup, files, history, Of
<1>6. ASSUME NEW c \in Client, Sweeps(c) PROVE Kept'
  BY <1>6 DEF Sweeps, DownloadsInv, Kept, Goes, Is, setup, files, Of
<1>7. ASSUME NEW c \in Client, Locks(c) PROVE Kept'
  BY <1>7 DEF Locks, DownloadsInv, Kept, Goes, Is, setup, files, history, Of
<1>8. ASSUME NEW c \in Client, Rechecks(c) PROVE Kept'
  BY <1>8 DEF Rechecks, DownloadsInv, TypeOK, Kept, Goes, Is, Asks, setup, files, Of
<1>9. ASSUME NEW c \in Client, Awaits(c) PROVE Kept'
  <2>1. at[c] = "info" /\ UNCHANGED <<recons, left, job, split>> BY <1>9 DEF Awaits, Is, setup, files
  <2>2. \A d \in Client \ {c} : at'[d] = at[d] /\ call'[d] = call[d]
    BY <1>9 DEF Awaits, Goes, Fails, DownloadsInv, TypeOK
  <2>3. call[c] = "done" /\ Of(c) \in split => at'[c] = "copy"
    BY <1>9 DEF Awaits, Goes, DownloadsInv, TypeOK
  <2> QED BY <2>1, <2>2, <2>3 DEF DownloadsInv, TypeOK, Kept, Of
<1>10. ASSUME NEW c \in Client, Copies(c) PROVE Kept'
  <2>1. \/ recons' = recons /\ at'[c] = "publish"
        \/ recons' = recons \ {c}
    BY <1>10 DEF Copies, Goes, Keeps, DownloadsInv, TypeOK
  <2>2. UNCHANGED <<call, left, job, split>> /\ \A d \in Client \ {c} : at'[d] = at[d]
    BY <1>10 DEF Copies, Goes, Fails, setup, DownloadsInv, TypeOK
  <2> QED BY <2>1, <2>2 DEF DownloadsInv, TypeOK, Kept, Of
<1>11. ASSUME NEW c \in Client, Publishes(c) PROVE Kept'
  <2>1. recons' = recons \ {c} BY <1>11 DEF Publishes, Keeps
  <2>2. UNCHANGED <<call, left, job, split>> /\ \A d \in Client \ {c} : at'[d] = at[d]
    BY <1>11 DEF Publishes, Goes, Fails, setup, DownloadsInv, TypeOK
  <2> QED BY <2>1, <2>2 DEF DownloadsInv, TypeOK, Kept, Of
<1>12. ASSUME NEW c \in Client, Fetches(c) PROVE Kept'
  BY <1>12 DEF Fetches, DownloadsInv, TypeOK, Kept, setup, files, history, Of
<1>13. ASSUME NEW c \in Client, Streams(c) PROVE Kept'
  BY <1>13 DEF Streams, DownloadsInv, TypeOK, Kept, Goes, Is, Fails, setup, files, Of
<1>14. ASSUME NEW c \in Client, Opens(c) PROVE Kept'
  BY <1>14 DEF Opens, DownloadsInv, Kept, Goes, Is, setup, files, Of
<1>15. ASSUME NEW c \in Client, Requests(c) PROVE Kept'
  BY <1>15 DEF Requests, DownloadsInv, TypeOK, Kept, Goes, Is, Asks, setup, files, history, Of
<1>16. ASSUME NEW c \in Client, Redirects(c) PROVE Kept'
  <2>1. at[c] = "info" /\ UNCHANGED <<recons, left, job, split>>
    BY <1>16 DEF Redirects, Is, setup, files, history
  <2>2. \A d \in Client \ {c} : at'[d] = at[d] /\ call'[d] = call[d]
    BY <1>16 DEF Redirects, Goes, DownloadsInv, TypeOK
  <2>3. call[c] = "done" /\ Of(c) \in split => at'[c] = "serve"
    BY <1>16 DEF Redirects, Goes, DownloadsInv, TypeOK
  <2> QED BY <2>1, <2>2, <2>3 DEF DownloadsInv, TypeOK, Kept, Of
<1>17. ASSUME NEW c \in Client, Serves(c) PROVE Kept'
  BY <1>17 DEF Serves, DownloadsInv, TypeOK, Kept, Goes, Is, Keeps, setup, history, Of
<1>18. ASSUME NEW c \in Client, Follows(c) PROVE Kept'
  BY <1>18 DEF Follows, DownloadsInv, TypeOK, Kept, Goes, Is, setup, files, history, Of
<1>19. ASSUME NEW c \in Client, Shares(c) PROVE Kept'
  BY <1>19 DEF Shares, DownloadsInv, Kept, Goes, Is, setup, files, history,
     Asks, Of
<1>20. ASSUME NEW c \in Client, Materializes(c) PROVE Kept'
  BY <1>20 DEF Materializes, TypeOK, DownloadsInv, Waited, Kept, Goes, Is,
     Calm, Trouble, setup, files, caching, sweeps, tokens, history, Asks,
     Recon, Frees, Spoils, Fails, Fills, Writing, Keeps, Of, Yesterday
<1>21. ASSUME NEW c \in Client, Shared(c) PROVE Kept'
  BY <1>21 DEF Shared, TypeOK, DownloadsInv, Waited, Kept, Goes, Is, Calm,
     Trouble, setup, files, caching, sweeps, tokens, history, Asks, Recon,
     Frees, Spoils, Fails, Fills, Writing, Keeps, Of, Yesterday
<1>22. ASSUME NEW c \in Client, Registers(c) PROVE Kept'
  BY <1>22 DEF Registers, DownloadsInv, Kept, Goes, Is, setup, history, Of
<1>23. ASSUME NEW c \in Client, Hands(c) PROVE Kept'
  BY <1>23 DEF Hands, DownloadsInv, Kept, Goes, Is, setup, files, history, Of
<1>24. ASSUME NEW c \in Client, Refuses(c) PROVE Kept'
  BY <1>24 DEF Refuses, DownloadsInv, Kept, setup, files, history, Of
<1>25. ASSUME NEW r \in Resource, Idles(r) PROVE Kept'
  BY <1>25 DEF Idles, DownloadsInv, Kept, setup, files, history, Of
<1>26. CASE Minute
  BY <1>26 DEF Minute, DownloadsInv, Kept, setup, files, history, Of
<1>27. CASE Day
  BY <1>27 DEF Day, DownloadsInv, Kept, setup, files, history, Of
<1>28. CASE Stops
  BY <1>28 DEF Stops, DownloadsInv, Kept, setup, files, history, Of
<1>29. CASE StopsSftp
  BY <1>29 DEF StopsSftp, DownloadsInv, Kept, setup, files, history, Of
<1>30. CASE Removes
  BY <1>30 DEF Removes, DownloadsInv, Kept, setup, files, Of
<1> QED
  BY <1>1, <1>2, <1>3, <1>4, <1>5, <1>6, <1>7, <1>8, <1>9, <1>10, <1>11, <1>12,
     <1>13, <1>14,
     <1>15, <1>16, <1>17, <1>18, <1>19, <1>20, <1>21, <1>22, <1>23, <1>24, <1>25, <1>26, <1>27,
     <1>28, <1>29, <1>30 DEF Next, Works

LEMMA TextsStep == ASSUME DownloadsInv, Next PROVE texts' = staged'
<1>1. ASSUME NEW c \in Client, Answers(c) \/ Late(c) \/ Resolves(c) \/ Checks(c) PROVE texts' =
       staged'
  BY <1>1 DEF Answers, Late, Resolves, Checks, DownloadsInv, files, tokens
<1>2. ASSUME NEW c \in Client, Reserves(c) \/ Sweeps(c) \/ Locks(c) \/ Rechecks(c) PROVE texts'
       = staged'
  BY <1>2 DEF Reserves, Sweeps, Locks, Rechecks, DownloadsInv, files, tokens
<1>3. ASSUME NEW c \in Client, Awaits(c) \/ Copies(c) \/ Publishes(c) \/ Fetches(c) PROVE texts'
       = staged'
  BY <1>3 DEF Awaits, Copies, Publishes, Fetches, TypeOK, DownloadsInv, Goes,
     Is, Calm, Trouble, setup, files, caching, sweeps, tokens, history, Asks,
     Recon, Frees, Spoils, Fails, Fills, Writing, Keeps, Of, Yesterday, vars
<1>4. ASSUME NEW c \in Client, Streams(c) \/ Opens(c) \/ Requests(c) \/ Redirects(c) PROVE
       texts' = staged'
  BY <1>4 DEF Streams, Opens, Requests, Redirects, TypeOK, DownloadsInv, Goes,
     Is, Calm, Trouble, setup, files, caching, sweeps, tokens, history, Asks,
     Recon, Frees, Spoils, Fails, Fills, Writing, Keeps, Of, Yesterday, vars
<1>5. ASSUME NEW c \in Client, Serves(c) \/ Follows(c) \/ Shares(c) \/ Materializes(c) PROVE
       texts' = staged'
  BY <1>5 DEF Serves, Follows, Shares, Materializes, DownloadsInv, files,
     tokens, Keeps
<1>6. ASSUME NEW c \in Client, Shared(c) \/ Registers(c) \/ Hands(c) \/ Refuses(c) PROVE texts'
       = staged'
  BY <1>6 DEF Shared, Registers, Hands, Refuses, DownloadsInv, files, tokens,
     Yesterday
<1>7. CASE (\E r \in Resource : Idles(r)) \/ Minute \/ Day \/ Stops \/ StopsSftp \/ Removes
  BY <1>7 DEF Idles, Minute, Day, Stops, StopsSftp, Removes, DownloadsInv,
     files, tokens
<1> QED
  BY <1>1, <1>2, <1>3, <1>4, <1>5, <1>6, <1>7 DEF Next, Works

(* The downloads, at one resource. *)
Has(c) == at[c] = "stream" /\ call[c] = "done"
Count(r) == pulls[r] <= 1 + spoilt[r] /\ (Owed(r) \/ Complete(r) \/ pulls[r] <= spoilt[r])

LEMMA CountStays ==
  ASSUME DownloadsInv, NEW r \in Resource, size[r] # "more", size' = size, lock'[r] = lock[r],
         cache'[r] = cache[r], pulls'[r] = pulls[r], spoilt'[r] = spoilt[r],
         \A d \in Client : lock[r] = d /\ at[d] \in Pulling /\ ~Has(d) => at'[d] \in Pulling /\ ~Has(d)'
  PROVE  Count(r)'
<1>1. Count(r) BY DEF DownloadsInv, Counted, Count
<1>2. Owed(r) => Owed(r)' BY DEF Owed, Has
<1>3. Complete(r) <=> Complete(r)' BY DEF Complete
<1> QED BY <1>1, <1>2, <1>3 DEF Count

(* A step of a client is no step at the other resources. *)
LEMMA OtherCounts ==
  ASSUME DownloadsInv, NEW c \in Client, NEW r \in Resource, size[r] # "more", size' = size,
         Of(c) # r \/ job[c].kind # "sftp" \/ at[c] \notin Pulling, lock'[r] = lock[r],
         cache'[r] = cache[r], pulls'[r] = pulls[r], spoilt'[r] = spoilt[r],
         \A d \in Client \ {c} : at'[d] = at[d] /\ call'[d] = call[d]
  PROVE  Count(r)'
<1>1. ASSUME NEW d \in Client, lock[r] = d, at[d] \in Pulling, ~Has(d)
      PROVE  at'[d] \in Pulling /\ ~Has(d)'
  <2>1. Holder(r, d) BY <1>1 DEF DownloadsInv, LocksOK
  <2>2. d # c BY <2>1, <1>1 DEF Holder
  <2> QED BY <1>1, <2>2 DEF Has
<1> QED BY <1>1, CountStays

(* A download that fails counts as spoilt, and so no more is owed. *)
LEMMA FailCounts ==
  ASSUME DownloadsInv, NEW c \in Client, job[c].kind = "sftp", at[c] \in Pulling, Fails(c),
         UNCHANGED <<size, cache, pulls>>, \A d \in Client \ {c} : call'[d] = call[d]
  PROVE  Counted'
<1> SUFFICES ASSUME NEW r \in Resource, size[r] # "more" PROVE Count(r)'
  BY DEF Counted, Count
<1> USE DEF DownloadsInv
<1>1. CASE Of(c) = r
  <2>1. Count(r) BY DEF Counted, Count
  <2>2. spoilt'[r] = spoilt[r] + 1 /\ pulls'[r] = pulls[r] BY <1>1 DEF Fails, Spoils, TypeOK
  <2>3. pulls[r] \in Nat /\ spoilt[r] \in Nat BY DEF TypeOK
  <2> QED BY <2>1, <2>2, <2>3 DEF Count
<1>2. CASE Of(c) # r
  <2>1. lock'[r] = lock[r] /\ spoilt'[r] = spoilt[r]
    BY <1>2 DEF Fails, Spoils, Frees
  <2>2. \A d \in Client \ {c} : at'[d] = at[d] BY DEF Fails, Goes, TypeOK
  <2> QED BY <1>2, <2>1, <2>2, OtherCounts
<1> QED BY <1>1, <1>2

(* A file that comes into the cache whole is complete. *)
LEMMA WholeCounts ==
  ASSUME DownloadsInv, NEW c \in Client, cache' = [cache EXCEPT ![Of(c)] = "whole"],
         UNCHANGED <<size, pulls, spoilt>>,
         \A r \in Resource \ {Of(c)} : lock'[r] = lock[r],
         \A d \in Client \ {c} : at'[d] = at[d] /\ call'[d] = call[d]
  PROVE  Counted'
<1> SUFFICES ASSUME NEW r \in Resource, size[r] # "more" PROVE Count(r)'
  BY DEF Counted, Count
<1> USE DEF DownloadsInv
<1>1. CASE Of(c) = r
  <2>1. Complete(r)' BY <1>1 DEF Complete, TypeOK
  <2> QED BY <2>1 DEF Counted, Count
<1>2. CASE Of(c) # r
  <2>1. cache'[r] = cache[r] BY <1>2 DEF TypeOK
  <2> QED BY <1>2, <2>1, OtherCounts
<1> QED BY <1>1, <1>2

LEMMA QuietCounts ==
  ASSUME DownloadsInv, UNCHANGED <<size, lock, cache, pulls, spoilt>>,
         \A d \in Client : job[d].kind = "sftp" /\ at[d] \in Pulling =>
            at'[d] = at[d] /\ (at[d] = "stream" /\ call'[d] = "done" => call[d] = "done")
  PROVE  Counted'
<1> SUFFICES ASSUME NEW r \in Resource, size[r] # "more" PROVE Count(r)'
  BY DEF Counted, Count
<1>1. ASSUME NEW d \in Client, lock[r] = d, at[d] \in Pulling, ~Has(d)
      PROVE  at'[d] \in Pulling /\ ~Has(d)'
  <2>1. Holder(r, d) BY <1>1 DEF DownloadsInv, LocksOK
  <2> QED BY <1>1, <2>1 DEF Has, Holder
<1> QED BY <1>1, CountStays

LEMMA CountedStep == ASSUME DownloadsInv, Next PROVE Counted'
<1> USE DEF DownloadsInv
<1>1. ASSUME NEW c \in Client, Answers(c) PROVE Counted'
  <2>1. UNCHANGED <<size, lock, cache, pulls, spoilt>> BY <1>1 DEF Answers, Is, Goes, Asks, setup, files, caching, sweeps, tokens, history
  <2>2. ASSUME NEW d \in Client, job[d].kind = "sftp", at[d] \in Pulling
        PROVE  at'[d] = at[d] /\ (at[d] = "stream" /\ call'[d] = "done" => call[d] = "done")
    BY <1>1, <2>2 DEF Answers, Waited
  <2> QED BY <2>1, <2>2, QuietCounts
<1>2. ASSUME NEW c \in Client, Late(c) PROVE Counted'
  <2>1. UNCHANGED <<size, lock, cache, pulls, spoilt>> BY <1>2 DEF Late, Is, Goes, Asks, setup, files, caching, sweeps, tokens, history
  <2>2. ASSUME NEW d \in Client, job[d].kind = "sftp", at[d] \in Pulling
        PROVE  at'[d] = at[d] /\ (at[d] = "stream" /\ call'[d] = "done" => call[d] = "done")
    BY <1>2, <2>2 DEF Late, Waited
  <2> QED BY <2>1, <2>2, QuietCounts
<1>3. ASSUME NEW c \in Client, Resolves(c) PROVE Counted'
  <2>1. UNCHANGED <<size, lock, cache, pulls, spoilt>> BY <1>3 DEF Resolves, Is, Goes, Asks, setup, files, caching, sweeps, tokens, history
  <2>2. ASSUME NEW d \in Client, job[d].kind = "sftp", at[d] \in Pulling
        PROVE  at'[d] = at[d] /\ (at[d] = "stream" /\ call'[d] = "done" => call[d] = "done")
    BY <1>3, <2>2 DEF Resolves, Waited, TypeOK, Pulling, Is, Goes, Asks, setup,
       files, caching, sweeps, tokens, history
  <2> QED BY <2>1, <2>2, QuietCounts
<1>4. ASSUME NEW c \in Client, Checks(c) PROVE Counted'
  <2>1. UNCHANGED <<size, lock, cache, pulls, spoilt>> BY <1>4 DEF Checks, Is, Goes, Asks, setup, files, caching, sweeps, tokens, history
  <2>2. ASSUME NEW d \in Client, job[d].kind = "sftp", at[d] \in Pulling
        PROVE  at'[d] = at[d] /\ (at[d] = "stream" /\ call'[d] = "done" => call[d] = "done")
    BY <1>4, <2>2 DEF Checks, Waited, Pulling, Is, Goes
  <2> QED BY <2>1, <2>2, QuietCounts
<1>5. ASSUME NEW c \in Client, Reserves(c) PROVE Counted'
  <2>1. UNCHANGED <<size, lock, cache, pulls, spoilt>> BY <1>5 DEF Reserves, Is, Goes, Asks, setup, files, caching, sweeps, tokens, history
  <2>2. ASSUME NEW d \in Client, job[d].kind = "sftp", at[d] \in Pulling
        PROVE  at'[d] = at[d] /\ (at[d] = "stream" /\ call'[d] = "done" => call[d] = "done")
    BY <1>5, <2>2 DEF Reserves, Waited, TypeOK, Pulling, Is, Goes, Asks, setup,
       files, caching, sweeps, tokens, history
  <2> QED BY <2>1, <2>2, QuietCounts
<1>6. ASSUME NEW c \in Client, Sweeps(c) PROVE Counted'
  <2> size' = size BY <1>6 DEF Sweeps, setup
  <2> SUFFICES ASSUME NEW r \in Resource, size[r] # "more" PROVE Count(r)'
    BY DEF Counted, Count
  <2>1. pulls' = pulls /\ size' = size /\ lock' = lock /\ call' = call BY <1>6 DEF Sweeps, setup
  <2>2. \A d \in Client \ {c} : at'[d] = at[d] BY <1>6 DEF Sweeps, Goes, TypeOK
  <2>3. CASE r \in victims[c] /\ cache[r] # "none"
    <3>1. spoilt'[r] = spoilt[r] + 1 BY <1>6, <2>3 DEF Sweeps
    <3>2. Count(r) /\ pulls[r] \in Nat /\ spoilt[r] \in Nat BY DEF Counted, Count, TypeOK
    <3> QED BY <2>1, <3>1, <3>2 DEF Count
  <2>4. CASE ~(r \in victims[c] /\ cache[r] # "none")
    <3>1. spoilt'[r] = spoilt[r] /\ cache'[r] = cache[r] BY <1>6, <2>4 DEF Sweeps
    <3>2. at[c] \notin Pulling BY <1>6 DEF Sweeps, Is, Pulling
    <3> QED BY <2>1, <2>2, <3>1, <3>2, OtherCounts
  <2> QED BY <2>3, <2>4
<1>7. ASSUME NEW c \in Client, Locks(c) PROVE Counted'
  <2> size' = size BY <1>7 DEF Locks, setup
  <2> SUFFICES ASSUME NEW r \in Resource, size[r] # "more" PROVE Count(r)'
    BY DEF Counted, Count
  <2>1. UNCHANGED <<size, call, cache, pulls, spoilt>> BY <1>7 DEF Locks, setup, files, caching, sweeps, tokens, history
  <2>2. \A d \in Client \ {c} : at'[d] = at[d] BY <1>7 DEF Locks, Goes, TypeOK
  <2>3. at[c] \notin Pulling BY <1>7 DEF Locks, Is, Pulling
  <2>4. CASE Of(c) # r
    <3>1. lock'[r] = lock[r] BY <1>7, <2>4 DEF Locks, TypeOK
    <3> QED BY <2>1, <2>2, <2>4, <3>1, OtherCounts
  <2>5. CASE Of(c) = r
    <3>1. ~Owed(r) BY <1>7, <2>5, DownloadsAssumption DEF Locks, Owed, DownloadsAssumption
    <3>2. Complete(r)' <=> Complete(r) BY <2>1 DEF Complete
    <3> QED BY <2>1, <3>1, <3>2 DEF Counted, Count
  <2> QED BY <2>4, <2>5
<1>8. ASSUME NEW c \in Client, Rechecks(c) PROVE Counted'
  <2> size' = size BY <1>8 DEF Rechecks, setup
  <2> SUFFICES ASSUME NEW r \in Resource, size[r] # "more" PROVE Count(r)'
    BY DEF Counted, Count
  <2>1. UNCHANGED <<size, cache, spoilt>> BY <1>8 DEF Rechecks, setup, files, caching, sweeps, tokens, history
  <2>2. \A d \in Client \ {c} : at'[d] = at[d] /\ call'[d] = call[d]
    BY <1>8 DEF Rechecks, Goes, Asks, TypeOK
  <2>3. at[c] \notin Pulling /\ at[c] = "held" BY <1>8 DEF Rechecks, Is, Pulling
  <2>4. CASE Of(c) # r
    <3>1. lock'[r] = lock[r] /\ pulls'[r] = pulls[r] BY <1>8, <2>4 DEF Rechecks, Frees, TypeOK
    <3> QED BY <2>1, <2>2, <2>4, <3>1, OtherCounts
  <2>5. CASE Of(c) = r
    <3>1. Holder(r, c) BY <1>8, <2>5 DEF Rechecks, Is, Holder
    <3>2. lock[r] = c BY <3>1 DEF LocksOK
    <3>3. ~Owed(r) BY <2>3, <3>2 DEF Owed
    <3>4. Count(r) /\ pulls[r] \in Nat /\ spoilt[r] \in Nat BY DEF Counted, Count, TypeOK
    <3>5. CASE Complete(r)
      <4>1. pulls' = pulls /\ Complete(r)' BY <1>8, <2>1, <2>5, <3>5 DEF Rechecks, Filled, Complete
      <4> QED BY <2>1, <3>4, <4>1 DEF Count
    <3>6. CASE ~Complete(r)
      <4>1. /\ pulls'[r] = pulls[r] + 1 /\ lock' = lock /\ at'[c] = "info"
        BY <1>8, <2>5, <3>6 DEF Rechecks, Filled, Goes, TypeOK
      <4>2. Owed(r)' BY <3>2, <4>1 DEF Owed, Pulling
      <4>3. pulls[r] <= spoilt[r] BY <3>3, <3>4, <3>6 DEF Count
      <4> QED BY <2>1, <3>4, <4>1, <4>2, <4>3 DEF Count
    <3> QED BY <3>5, <3>6
  <2> QED BY <2>4, <2>5
<1>9. ASSUME NEW c \in Client, Awaits(c) PROVE Counted'
  <2>1. CASE call[c] = "done" /\ ~Fails(c)
    <3> size' = size BY <1>9 DEF Awaits, Fails, setup
    <3> SUFFICES ASSUME NEW r \in Resource, size[r] # "more" PROVE Count(r)'
      BY DEF Counted, Count
    <3>1. UNCHANGED <<size, lock, cache, pulls, spoilt>> BY <1>9, <2>1 DEF Awaits, Fails, Fills, Writing, TypeOK, Is, setup, files, caching, sweeps, tokens, history
    <3>2. at'[c] \in Pulling /\ ~Has(c)' BY <1>9, <2>1 DEF Awaits, Fails, Is, Goes, Pulling, Has, TypeOK
    <3>3. \A d \in Client \ {c} : at'[d] = at[d] /\ call'[d] = call[d]
      BY <1>9, <2>1 DEF Awaits, Fails, Goes, TypeOK
    <3>4. \A d \in Client : at[d] \in Pulling /\ ~Has(d) => at'[d] \in Pulling /\ ~Has(d)'
      BY <3>2, <3>3 DEF Has
    <3> QED BY <3>1, <3>4, CountStays

  <2>2. CASE Fails(c)
    <3>1. job[c].kind = "sftp" /\ at[c] \in Pulling /\ UNCHANGED <<size, cache, pulls>>
      BY <1>9, <2>2 DEF Awaits, Is, Pulling, setup, caching
    <3>2. \A d \in Client \ {c} : call'[d] = call[d] BY <1>9, <2>2 DEF Awaits, TypeOK
    <3> QED BY <2>2, <3>1, <3>2, FailCounts

  <2> QED BY <1>9, <2>1, <2>2 DEF Awaits
<1>10. ASSUME NEW c \in Client, Copies(c) PROVE Counted'
  <2>1. CASE Root
    <3> size' = size BY <1>10 DEF Copies, setup
    <3> SUFFICES ASSUME NEW r \in Resource, size[r] # "more" PROVE Count(r)'
      BY DEF Counted, Count
    <3>1. UNCHANGED <<size, lock, cache, pulls, spoilt>> BY <1>10, <2>1 DEF Copies, Fills, Writing, TypeOK, Is, setup, files, caching, sweeps, tokens, history
    <3>2. at'[c] \in Pulling /\ ~Has(c)' BY <1>10, <2>1 DEF Copies, Is, Goes, Pulling, Has, TypeOK
    <3>3. \A d \in Client \ {c} : at'[d] = at[d] /\ call'[d] = call[d]
      BY <1>10, <2>1 DEF Copies, Goes, TypeOK
    <3>4. \A d \in Client : at[d] \in Pulling /\ ~Has(d) => at'[d] \in Pulling /\ ~Has(d)'
      BY <3>2, <3>3 DEF Has
    <3> QED BY <3>1, <3>4, CountStays

  <2>2. CASE Fails(c) /\ UNCHANGED caching
    <3>1. job[c].kind = "sftp" /\ at[c] \in Pulling /\ UNCHANGED <<size, cache, pulls>>
      BY <1>10, <2>2 DEF Copies, Is, Pulling, setup, caching
    <3>2. \A d \in Client \ {c} : call'[d] = call[d] BY <1>10, <2>2 DEF Copies, TypeOK
    <3> QED BY <2>2, <3>1, <3>2, FailCounts

  <2> QED BY <1>10, <2>1, <2>2 DEF Copies
<1>11. ASSUME NEW c \in Client, Publishes(c) PROVE Counted'
  <2>1. CASE Fills(c, "whole") /\ lock' = Frees(c) /\ Goes(c, "open") /\ UNCHANGED spoilt
    <3>1. cache' = [cache EXCEPT ![Of(c)] = "whole"] /\ UNCHANGED <<size, pulls, spoilt>>
      BY <1>11, <2>1 DEF Publishes, Fills, setup
    <3>2. \A r \in Resource \ {Of(c)} : lock'[r] = lock[r] BY <1>11, <2>1 DEF Publishes, Frees, TypeOK
    <3>3. \A d \in Client \ {c} : at'[d] = at[d] /\ call'[d] = call[d]
      BY <1>11, <2>1 DEF Publishes, Goes
    <3> QED BY <3>1, <3>2, <3>3, WholeCounts

  <2>2. CASE Fails(c) /\ UNCHANGED caching
    <3>1. job[c].kind = "sftp" /\ at[c] \in Pulling /\ UNCHANGED <<size, cache, pulls>>
      BY <1>11, <2>2 DEF Publishes, Is, Pulling, setup, caching
    <3>2. \A d \in Client \ {c} : call'[d] = call[d] BY <1>11, <2>2 DEF Publishes, TypeOK
    <3> QED BY <2>2, <3>1, <3>2, FailCounts

  <2> QED BY <1>11, <2>1, <2>2 DEF Publishes
<1>12. ASSUME NEW c \in Client, Fetches(c) PROVE Counted'
  <2>1. CASE Fills(c, "whole")
    <3>1. cache' = [cache EXCEPT ![Of(c)] = "whole"] /\ UNCHANGED <<size, pulls, spoilt>>
      BY <1>12, <2>1 DEF Fetches, Fills, setup, files, caching, sweeps, tokens,
         history
    <3>2. \A r \in Resource \ {Of(c)} : lock'[r] = lock[r] BY <1>12, <2>1 DEF Fetches, Frees, TypeOK
    <3>3. \A d \in Client \ {c} : at'[d] = at[d] /\ call'[d] = call[d]
      BY <1>12, <2>1 DEF Fetches, Goes, TypeOK
    <3> QED BY <3>1, <3>2, <3>3, WholeCounts

  <2>2. CASE call'[c] # "done" /\ UNCHANGED caching
    <3> size' = size BY <1>12 DEF Fetches, setup
    <3> SUFFICES ASSUME NEW r \in Resource, size[r] # "more" PROVE Count(r)'
      BY DEF Counted, Count
    <3>1. UNCHANGED <<size, lock, cache, pulls, spoilt, at>> BY <1>12, <2>2 DEF Fetches, setup, files, caching, sweeps, tokens, history
    <3>2. \A d \in Client \ {c} : call'[d] = call[d] BY <1>12 DEF Fetches, TypeOK
    <3>3. \A d \in Client : ~Has(d) => ~Has(d)' BY <2>2, <3>1, <3>2 DEF Has
    <3> QED BY <3>1, <3>3, CountStays
  <2>3. call'[c] # "done" \/ Fills(c, "whole") BY <1>12 DEF Fetches, TypeOK
  <2> QED BY <1>12, <2>1, <2>2, <2>3 DEF Fetches
<1>13. ASSUME NEW c \in Client, Streams(c) PROVE Counted'
  <2>1. CASE call[c] = "done" /\ ~Fails(c)
    <3> size' = size BY <1>13 DEF Streams, setup
    <3> SUFFICES ASSUME NEW r \in Resource, size[r] # "more" PROVE Count(r)'
      BY DEF Counted, Count
    <3>1. UNCHANGED <<size, cache, pulls, spoilt>> BY <1>13, <2>1 DEF Streams, setup, files, caching, sweeps, tokens, history
    <3>2. \A d \in Client \ {c} : at'[d] = at[d] /\ call'[d] = call[d]
      BY <1>13, <2>1 DEF Streams, Goes, TypeOK
    <3>3. CASE Of(c) # r
      <4>1. lock'[r] = lock[r] BY <1>13, <2>1, <3>3 DEF Streams, Frees, TypeOK
      <4> QED BY <3>1, <3>2, <3>3, <4>1, OtherCounts
    <3>4. CASE Of(c) = r
      <4>1. Holder(r, c) BY <1>13, <3>4 DEF Streams, Is, Holder, Pulling
      <4>2. lock[r] = c BY <4>1 DEF LocksOK
      <4>3. ~Owed(r) BY <1>13, <2>1, <4>2 DEF Streams, Is, Owed
      <4>4. Complete(r)' <=> Complete(r) BY <3>1 DEF Complete
      <4> QED BY <3>1, <4>3, <4>4 DEF Counted, Count
    <3> QED BY <3>3, <3>4
  <2>2. CASE Fails(c)
    <3>1. job[c].kind = "sftp" /\ at[c] \in Pulling /\ UNCHANGED <<size, cache, pulls>>
      BY <1>13, <2>2 DEF Streams, Is, Pulling, setup, files, caching, sweeps,
         tokens, history
    <3>2. \A d \in Client \ {c} : call'[d] = call[d] BY <1>13, <2>2 DEF Streams, TypeOK
    <3> QED BY <2>2, <3>1, <3>2, FailCounts

  <2> QED BY <1>13, <2>1, <2>2 DEF Streams
<1>14. ASSUME NEW c \in Client, Opens(c) PROVE Counted'
  <2>1. UNCHANGED <<size, lock, cache, pulls, spoilt>> BY <1>14 DEF Opens, Is, Goes, Asks, setup, files, caching, sweeps, tokens, history
  <2>2. ASSUME NEW d \in Client, job[d].kind = "sftp", at[d] \in Pulling
        PROVE  at'[d] = at[d] /\ (at[d] = "stream" /\ call'[d] = "done" => call[d] = "done")
    BY <1>14, <2>2 DEF Opens, Waited, Pulling, Is, Goes
  <2> QED BY <2>1, <2>2, QuietCounts
<1>15. ASSUME NEW c \in Client, Requests(c) PROVE Counted'
  <2>1. UNCHANGED <<size, lock, cache, pulls, spoilt>> BY <1>15 DEF Requests, Is, Goes, Asks, setup, files, caching, sweeps, tokens, history
  <2>2. ASSUME NEW d \in Client, job[d].kind = "sftp", at[d] \in Pulling
        PROVE  at'[d] = at[d] /\ (at[d] = "stream" /\ call'[d] = "done" => call[d] = "done")
    BY <1>15, <2>2 DEF Requests, Waited, TypeOK, Pulling, Is, Goes, Asks,
       setup, files, caching, sweeps, tokens, history
  <2> QED BY <2>1, <2>2, QuietCounts
<1>16. ASSUME NEW c \in Client, Redirects(c) PROVE Counted'
  <2>1. UNCHANGED <<size, lock, cache, pulls, spoilt>> BY <1>16 DEF Redirects, Is, Goes, Asks, setup, files, caching, sweeps, tokens, history
  <2>2. ASSUME NEW d \in Client, job[d].kind = "sftp", at[d] \in Pulling
        PROVE  at'[d] = at[d] /\ (at[d] = "stream" /\ call'[d] = "done" => call[d] = "done")
    BY <1>16, <2>2 DEF Redirects, Waited, TypeOK, Pulling, Is, Goes, Asks,
       setup, files, caching, sweeps, tokens, history
  <2> QED BY <2>1, <2>2, QuietCounts
<1>17. ASSUME NEW c \in Client, Serves(c) PROVE Counted'
  <2>1. UNCHANGED <<size, lock, cache, pulls, spoilt>> BY <1>17 DEF Serves, Is, Goes, Asks, setup, files, caching, sweeps, tokens, history
  <2>2. ASSUME NEW d \in Client, job[d].kind = "sftp", at[d] \in Pulling
        PROVE  at'[d] = at[d] /\ (at[d] = "stream" /\ call'[d] = "done" => call[d] = "done")
    BY <1>17, <2>2 DEF Serves, Waited, TypeOK, Pulling, Is, Goes, Asks, setup,
       files, caching, sweeps, tokens, history
  <2> QED BY <2>1, <2>2, QuietCounts
<1>18. ASSUME NEW c \in Client, Follows(c) PROVE Counted'
  <2>1. UNCHANGED <<size, lock, cache, pulls, spoilt>> BY <1>18 DEF Follows, Is, Goes, Asks, setup, files, caching, sweeps, tokens, history
  <2>2. ASSUME NEW d \in Client, job[d].kind = "sftp", at[d] \in Pulling
        PROVE  at'[d] = at[d] /\ (at[d] = "stream" /\ call'[d] = "done" => call[d] = "done")
    BY <1>18, <2>2 DEF Follows, Waited, TypeOK, Pulling, Is, Goes, Asks, setup,
       files, caching, sweeps, tokens, history
  <2> QED BY <2>1, <2>2, QuietCounts
<1>19. ASSUME NEW c \in Client, Shares(c) PROVE Counted'
  <2>1. UNCHANGED <<size, lock, cache, pulls, spoilt>> BY <1>19 DEF Shares, Is, Goes, Asks, setup, files, caching, sweeps, tokens, history
  <2>2. ASSUME NEW d \in Client, job[d].kind = "sftp", at[d] \in Pulling
        PROVE  at'[d] = at[d] /\ (at[d] = "stream" /\ call'[d] = "done" => call[d] = "done")
    BY <1>19, <2>2 DEF Shares, Waited, Is, Goes, Asks
  <2> QED BY <2>1, <2>2, QuietCounts
<1>20. ASSUME NEW c \in Client, Materializes(c) PROVE Counted'
  <2>1. UNCHANGED <<size, lock, cache, pulls, spoilt>> BY <1>20 DEF Materializes, Is, Goes, Asks, setup, files, caching, sweeps, tokens, history
  <2>2. ASSUME NEW d \in Client, job[d].kind = "sftp", at[d] \in Pulling
        PROVE  at'[d] = at[d] /\ (at[d] = "stream" /\ call'[d] = "done" => call[d] = "done")
    BY <1>20, <2>2 DEF Materializes, Waited, Is, Goes
  <2> QED BY <2>1, <2>2, QuietCounts
<1>21. ASSUME NEW c \in Client, Shared(c) PROVE Counted'
  <2>1. UNCHANGED <<size, lock, cache, pulls, spoilt>> BY <1>21 DEF Shared, Is, Goes, Asks, setup, files, caching, sweeps, tokens, history
  <2>2. ASSUME NEW d \in Client, job[d].kind = "sftp", at[d] \in Pulling
        PROVE  at'[d] = at[d] /\ (at[d] = "stream" /\ call'[d] = "done" => call[d] = "done")
    BY <1>21, <2>2 DEF Shared, Waited, TypeOK, Pulling, Is, Goes, Asks, setup,
       files, caching, sweeps, tokens, history
  <2> QED BY <2>1, <2>2, QuietCounts
<1>22. ASSUME NEW c \in Client, Registers(c) PROVE Counted'
  <2>1. UNCHANGED <<size, lock, cache, pulls, spoilt>> BY <1>22 DEF Registers, Is, Goes, Asks, setup, files, caching, sweeps, tokens, history
  <2>2. ASSUME NEW d \in Client, job[d].kind = "sftp", at[d] \in Pulling
        PROVE  at'[d] = at[d] /\ (at[d] = "stream" /\ call'[d] = "done" => call[d] = "done")
    BY <1>22, <2>2 DEF Registers, Waited, Is, Goes
  <2> QED BY <2>1, <2>2, QuietCounts
<1>23. ASSUME NEW c \in Client, Hands(c) PROVE Counted'
  <2>1. UNCHANGED <<size, lock, cache, pulls, spoilt>> BY <1>23 DEF Hands, Is, Goes, Asks, setup, files, caching, sweeps, tokens, history
  <2>2. ASSUME NEW d \in Client, job[d].kind = "sftp", at[d] \in Pulling
        PROVE  at'[d] = at[d] /\ (at[d] = "stream" /\ call'[d] = "done" => call[d] = "done")
    BY <1>23, <2>2 DEF Hands, Waited, Is, Goes
  <2> QED BY <2>1, <2>2, QuietCounts
<1>24. ASSUME NEW c \in Client, Refuses(c) PROVE Counted'
  <2>1. UNCHANGED <<size, lock, cache, pulls, spoilt>> BY <1>24 DEF Refuses, Is, Goes, Asks, setup, files, caching, sweeps, tokens, history
  <2>2. ASSUME NEW d \in Client, job[d].kind = "sftp", at[d] \in Pulling
        PROVE  at'[d] = at[d] /\ (at[d] = "stream" /\ call'[d] = "done" => call[d] = "done")
    BY <1>24, <2>2 DEF Refuses, Waited
  <2> QED BY <2>1, <2>2, QuietCounts
<1>25. ASSUME NEW r \in Resource, Idles(r) PROVE Counted'
  <2>1. UNCHANGED <<size, lock, cache, pulls, spoilt, at, call>> BY <1>25 DEF Idles, setup, files, caching, sweeps, tokens, history
  <2> QED BY <2>1, QuietCounts
<1>26. CASE Minute
  <2>1. UNCHANGED <<size, lock, cache, pulls, spoilt, at, call>> BY <1>26 DEF Minute, setup, files, caching, sweeps, tokens, history
  <2> QED BY <2>1, QuietCounts
<1>27. CASE Day
  <2>1. UNCHANGED <<size, lock, cache, pulls, spoilt, at, call>> BY <1>27 DEF Day, setup, files, caching, sweeps, tokens, history
  <2> QED BY <2>1, QuietCounts
<1>28. CASE Stops
  <2>1. UNCHANGED <<size, lock, cache, pulls, spoilt, at, call>> BY <1>28 DEF Stops, setup, files, caching, sweeps, tokens, history
  <2> QED BY <2>1, QuietCounts
<1>29. CASE StopsSftp
  <2>1. UNCHANGED <<size, lock, cache, pulls, spoilt, at, call>> BY <1>29 DEF StopsSftp, setup, files, caching, sweeps, tokens, history
  <2> QED BY <2>1, QuietCounts
<1>30. CASE Removes
  <2> size' = size BY <1>30 DEF Removes, setup
  <2> SUFFICES ASSUME NEW r \in Resource, size[r] # "more" PROVE Count(r)'
    BY DEF Counted, Count
  <2>1. spoilt'[r] = spoilt[r] + 1 /\ pulls' = pulls BY <1>30 DEF Removes
  <2>2. Count(r) /\ pulls[r] \in Nat /\ spoilt[r] \in Nat BY DEF Counted, Count, TypeOK
  <2> QED BY <2>1, <2>2 DEF Count
<1> QED
  BY <1>1, <1>2, <1>3, <1>4, <1>5, <1>6, <1>7, <1>8, <1>9, <1>10, <1>11, <1>12,
     <1>13, <1>14,
     <1>15, <1>16, <1>17, <1>18, <1>19, <1>20, <1>21, <1>22, <1>23, <1>24, <1>25, <1>26, <1>27,
     <1>28, <1>29, <1>30 DEF Next, Works

-----------------------------------------------------------------------------
LEMMA InvStep == DownloadsInv /\ [Next]_vars => DownloadsInv'
<1>1. DownloadsInv /\ Next => DownloadsInv'
  <2> SUFFICES ASSUME DownloadsInv, Next PROVE DownloadsInv' OBVIOUS
  <2>1. TypeOK /\ LocksOK BY DEF DownloadsInv
  <2>3. TypeOK' /\ LocksOK' BY <2>1, TypesStep, LocksStep
  <2>4. Waited' /\ Whole' /\ Kept' /\ texts' = staged' /\ Counted'
    BY WaitedStep, WholeStep, KeptStep, TextsStep, CountedStep
  <2> QED BY <2>3, <2>4 DEF DownloadsInv
<1>2. DownloadsInv /\ UNCHANGED vars => DownloadsInv'
  <2> SUFFICES ASSUME DownloadsInv, UNCHANGED vars PROVE DownloadsInv' OBVIOUS
  <2> USE DEF vars, files, caching, sweeps, tokens, history, setup
  <2>0. TypeOK' BY DEF DownloadsInv, TypeOK
  <2>1. LocksOK' BY DEF DownloadsInv, LocksOK, Holder, Of
  <2>2. Waited' /\ Whole' /\ Kept' /\ texts' = staged'
    BY DEF DownloadsInv, Waited, Whole, Kept, Of
  <2>3. Counted' BY DEF DownloadsInv, Counted, Owed, Complete
  <2> QED BY <2>0, <2>1, <2>2, <2>3 DEF DownloadsInv
<1> QED BY <1>1, <1>2

THEOREM InvAlways == Spec => []DownloadsInv
BY Initially, InvStep, PTL DEF Spec

(* Clients, coroutines, files, locks and counts keep their types. *)
THEOREM TypesHold == Spec => []TypeOK
<1>1. DownloadsInv => TypeOK BY DEF DownloadsInv
<1> QED BY <1>1, InvAlways, PTL

(* However many clients open a resource at once, it is downloaded again only for
   a download that failed or a cached copy that was dropped. *)
THEOREM PulledOnceAlways == Spec => []PulledOnce
<1>1. DownloadsInv => PulledOnce BY DEF DownloadsInv, Counted, PulledOnce
<1> QED BY <1>1, InvAlways, PTL

(* No client opens a file that another thread is writing, or that a failed
   download left behind. *)
THEOREM OpenedWholeAlways == Spec => []OpenedWhole
<1>1. DownloadsInv => OpenedWhole BY DEF DownloadsInv, Whole, OpenedWhole, States
<1> QED BY <1>1, InvAlways, PTL

(* A reassembled file outlives its request only where the request gave up on the
   loop or the copy into the share failed; a staged file lives as its token. *)
THEOREM ReclaimedAlways == Spec => []Reclaimed
<1>1. DownloadsInv => Reclaimed BY DEF DownloadsInv, Kept, Reclaimed
<1> QED BY <1>1, InvAlways, PTL
=============================================================================
