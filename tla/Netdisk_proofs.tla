--------------------------- MODULE Netdisk_proofs ---------------------------
(***************************************************************************)
(* Theorems about Netdisk, for any jobs, names, directories, tokens,       *)
(* retries and faults.  The first half is about the session and the        *)
(* requests, the second about what an index finds.                         *)
(***************************************************************************)
EXTENDS Netdisk, SequenceTheorems, WellFoundedInduction, TLAPS

(* A call is a record of its nine fields. *)
Shaped(r) ==
  r = [at |-> r.at, todo |-> r.todo, again |-> r.again, bearer |-> r.bearer, good |-> r.good,
       code |-> r.code, entries |-> r.entries, more |-> r.more, tries |-> r.tries]

(* A request that is on its way to the server, or was refused, was not carried
   out; and the second attempt carries the token of a login. *)
Unrun(r, n) ==
  /\ n \in {0, 1}
  /\ r.at \in {"login", "sent"} => n = 0
  /\ r.at = "answered" /\ r.code = "401" => n = 0
Renewed(r) == r.at \in {"sent", "answered"} /\ r.again => r.good

JobOK(r, n) ==
  Shaped(r) /\ CallOK(r) /\ (r.at = "replay" => r.tries < MaxReplays) /\ Unrun(r, n) /\ Renewed(r)

WorldOK == /\ token \in 0..MaxTokens /\ accepted \subseteq 1..MaxTokens
           /\ plan \in [Job -> Plans]
           /\ rows \in [Path -> {NoRow} \cup [known : {TRUE}, indexed : BOOLEAN]]
JobsOK == /\ DOMAIN job = Job /\ job = [j \in Job |-> job[j]]
          /\ ran \in [Job -> Nat] /\ \A j \in Job : JobOK(job[j], ran[j])

NetdiskInv == WorldOK /\ JobsOK

-----------------------------------------------------------------------------
(* The updates of a call, field by field. *)
LEMMA SetTodo ==
  ASSUME NEW r, Shaped(r), NEW v1
  PROVE  [r EXCEPT !.todo = v1] =
  [at |-> r.at, todo |-> v1, again |-> r.again, bearer |-> r.bearer, good |-> r.good,
            code |-> r.code, entries |-> r.entries, more |-> r.more, tries |-> r.tries]
BY DEF Shaped

LEMMA SetTodoAt ==
  ASSUME NEW r, Shaped(r), NEW v1, NEW v2
  PROVE  [r EXCEPT !.todo = v1, !.at = v2] =
  [at |-> v2, todo |-> v1, again |-> r.again, bearer |-> r.bearer, good |-> r.good,
            code |-> r.code, entries |-> r.entries, more |-> r.more, tries |-> r.tries]
<1> DEFINE w1 == [at |-> r.at, todo |-> v1, again |-> r.again, bearer |-> r.bearer, good |-> r.good,
                  code |-> r.code, entries |-> r.entries, more |-> r.more, tries |-> r.tries]
           w2 == [at |-> v2, todo |-> v1, again |-> r.again, bearer |-> r.bearer, good |-> r.good,
                  code |-> r.code, entries |-> r.entries, more |-> r.more, tries |-> r.tries]
<1>1. [r EXCEPT !.todo = v1] = w1 BY DEF Shaped
<1>2. [w1 EXCEPT !.at = v2] = w2 OBVIOUS
<1> HIDE DEF w1, w2
<1>3. [r EXCEPT !.todo = v1, !.at = v2] = w2 BY <1>1, <1>2
<1> QED BY <1>3 DEF w2

LEMMA SetAtAgain ==
  ASSUME NEW r, Shaped(r), NEW v1, NEW v2
  PROVE  [r EXCEPT !.at = v1, !.again = v2] =
  [at |-> v1, todo |-> r.todo, again |-> v2, bearer |-> r.bearer, good |-> r.good,
            code |-> r.code, entries |-> r.entries, more |-> r.more, tries |-> r.tries]
<1> DEFINE w1 == [at |-> v1, todo |-> r.todo, again |-> r.again, bearer |-> r.bearer, good |-> r.good,
                  code |-> r.code, entries |-> r.entries, more |-> r.more, tries |-> r.tries]
           w2 == [at |-> v1, todo |-> r.todo, again |-> v2, bearer |-> r.bearer, good |-> r.good,
                  code |-> r.code, entries |-> r.entries, more |-> r.more, tries |-> r.tries]
<1>1. [r EXCEPT !.at = v1] = w1 BY DEF Shaped
<1>2. [w1 EXCEPT !.again = v2] = w2 OBVIOUS
<1> HIDE DEF w1, w2
<1>3. [r EXCEPT !.at = v1, !.again = v2] = w2 BY <1>1, <1>2
<1> QED BY <1>3 DEF w2

LEMMA SetAtBearerGood ==
  ASSUME NEW r, Shaped(r), NEW v1, NEW v2, NEW v3
  PROVE  [r EXCEPT !.at = v1, !.bearer = v2, !.good = v3] =
  [at |-> v1, todo |-> r.todo, again |-> r.again, bearer |-> v2, good |-> v3, code |-> r.code,
            entries |-> r.entries, more |-> r.more, tries |-> r.tries]
<1> DEFINE w1 == [at |-> v1, todo |-> r.todo, again |-> r.again, bearer |-> r.bearer, good |-> r.good,
                  code |-> r.code, entries |-> r.entries, more |-> r.more, tries |-> r.tries]
           w2 == [at |-> v1, todo |-> r.todo, again |-> r.again, bearer |-> v2, good |-> r.good,
                  code |-> r.code, entries |-> r.entries, more |-> r.more, tries |-> r.tries]
           w3 == [at |-> v1, todo |-> r.todo, again |-> r.again, bearer |-> v2, good |-> v3,
                  code |-> r.code, entries |-> r.entries, more |-> r.more, tries |-> r.tries]
<1>1. [r EXCEPT !.at = v1] = w1 BY DEF Shaped
<1>2. [w1 EXCEPT !.bearer = v2] = w2 OBVIOUS
<1>3. [w2 EXCEPT !.good = v3] = w3 OBVIOUS
<1> HIDE DEF w1, w2, w3
<1>4. [r EXCEPT !.at = v1, !.bearer = v2, !.good = v3] = w3 BY <1>1, <1>2, <1>3
<1> QED BY <1>4 DEF w3

LEMMA SetAtTriesTodo ==
  ASSUME NEW r, Shaped(r), NEW v1, NEW v2, NEW v3
  PROVE  [r EXCEPT !.at = v1, !.tries = v2, !.todo = v3] =
  [at |-> v1, todo |-> v3, again |-> r.again, bearer |-> r.bearer, good |-> r.good,
            code |-> r.code, entries |-> r.entries, more |-> r.more, tries |-> v2]
<1> DEFINE w1 == [at |-> v1, todo |-> r.todo, again |-> r.again, bearer |-> r.bearer, good |-> r.good,
                  code |-> r.code, entries |-> r.entries, more |-> r.more, tries |-> r.tries]
           w2 == [at |-> v1, todo |-> r.todo, again |-> r.again, bearer |-> r.bearer, good |-> r.good,
                  code |-> r.code, entries |-> r.entries, more |-> r.more, tries |-> v2]
           w3 == [at |-> v1, todo |-> v3, again |-> r.again, bearer |-> r.bearer, good |-> r.good,
                  code |-> r.code, entries |-> r.entries, more |-> r.more, tries |-> v2]
<1>1. [r EXCEPT !.at = v1] = w1 BY DEF Shaped
<1>2. [w1 EXCEPT !.tries = v2] = w2 OBVIOUS
<1>3. [w2 EXCEPT !.todo = v3] = w3 OBVIOUS
<1> HIDE DEF w1, w2, w3
<1>4. [r EXCEPT !.at = v1, !.tries = v2, !.todo = v3] = w3 BY <1>1, <1>2, <1>3
<1> QED BY <1>4 DEF w3

LEMMA OverIs ==
  ASSUME NEW r, Shaped(r)
  PROVE  Over(r) = [at |-> r.at, todo |-> r.todo, again |-> FALSE, bearer |-> 0, good |-> FALSE,
                    code |-> "none", entries |-> {}, more |-> FALSE, tries |-> r.tries]
<1> DEFINE f == FALSE
           c == "none"
<1>a. Over(r) = [r EXCEPT !.again = f, !.bearer = 0, !.good = f, !.code = c, !.entries = {}, !.more = f]
  BY Zenon DEF Over
<1>b. c = "none" /\ f = FALSE OBVIOUS
<1> HIDE DEF f, c
<1> DEFINE w1 == [at |-> r.at, todo |-> r.todo, again |-> f, bearer |-> r.bearer, good |-> r.good,
                  code |-> r.code, entries |-> r.entries, more |-> r.more, tries |-> r.tries]
           w2 == [at |-> r.at, todo |-> r.todo, again |-> f, bearer |-> 0, good |-> r.good,
                  code |-> r.code, entries |-> r.entries, more |-> r.more, tries |-> r.tries]
           w3 == [at |-> r.at, todo |-> r.todo, again |-> f, bearer |-> 0, good |-> f, code |-> r.code,
                  entries |-> r.entries, more |-> r.more, tries |-> r.tries]
           w4 == [at |-> r.at, todo |-> r.todo, again |-> f, bearer |-> 0, good |-> f, code |-> c,
                  entries |-> r.entries, more |-> r.more, tries |-> r.tries]
           w5 == [at |-> r.at, todo |-> r.todo, again |-> f, bearer |-> 0, good |-> f, code |-> c,
                  entries |-> {}, more |-> r.more, tries |-> r.tries]
           w6 == [at |-> r.at, todo |-> r.todo, again |-> f, bearer |-> 0, good |-> f, code |-> c,
                  entries |-> {}, more |-> f, tries |-> r.tries]
<1>1. [r EXCEPT !.again = f] = w1 BY DEF Shaped
<1>2. [w1 EXCEPT !.bearer = 0] = w2 OBVIOUS
<1>3. [w2 EXCEPT !.good = f] = w3 OBVIOUS
<1>4. [w3 EXCEPT !.code = c] = w4 OBVIOUS
<1>5. [w4 EXCEPT !.entries = {}] = w5 OBVIOUS
<1>6. [w5 EXCEPT !.more = f] = w6 OBVIOUS
<1> HIDE DEF w1, w2, w3, w4, w5, w6
<1>7. [r EXCEPT !.again = f, !.bearer = 0, !.good = f, !.code = c, !.entries = {}, !.more = f] = w6
  BY <1>1, <1>2, <1>3, <1>4, <1>5, <1>6
<1> QED BY <1>a, <1>b, <1>7, Zenon DEF w6, f, c

LEMMA OverKeeps ==
  ASSUME NEW r, Shaped(r), CallOK(r)
  PROVE  /\ Shaped(Over(r)) /\ CallOK(Over(r))
         /\ Over(r).at = r.at /\ Over(r).todo = r.todo /\ Over(r).tries = r.tries
         /\ Over(r).again = FALSE /\ Over(r).good = FALSE /\ Over(r).more = FALSE
         /\ Over(r).bearer = 0 /\ Over(r).code = "none" /\ Over(r).entries = {}
<1> DEFINE w == [at |-> r.at, todo |-> r.todo, again |-> FALSE, bearer |-> 0, good |-> FALSE,
                 code |-> "none", entries |-> {}, more |-> FALSE, tries |-> r.tries]
<1>1. Over(r) = w BY OverIs, Zenon
<1>2. Shaped(w) BY DEF Shaped
<1>3. CallOK(w) BY NetdiskAssumption DEF CallOK, NetdiskAssumption
<1>4. w.at = r.at /\ w.todo = r.todo /\ w.tries = r.tries OBVIOUS
<1>5. w.again = FALSE /\ w.good = FALSE /\ w.more = FALSE BY Zenon
<1>6. w.bearer = 0 /\ w.code = "none" /\ w.entries = {} OBVIOUS
<1> HIDE DEF w
<1> QED BY <1>1, <1>2, <1>3, <1>4, <1>5, <1>6, Zenon

(* A step to a place where no answer is awaited. *)
Still == {"done", "failed", "cancelled", "next", "store", "mark"}
LEMMA MovesOn ==
  ASSUME NEW r, Shaped(r), CallOK(r), NEW to \in Still, to \in Ended \/ r.todo # <<>>,
         NEW n \in {0, 1}
  PROVE  JobOK([r EXCEPT !.at = to], n)
<1> DEFINE w == [at |-> to, todo |-> r.todo, again |-> r.again, bearer |-> r.bearer,
                 good |-> r.good, code |-> r.code, entries |-> r.entries, more |-> r.more,
                 tries |-> r.tries]
<1>1. [r EXCEPT !.at = to] = w BY DEF Shaped
<1>2. JobOK(w, n) BY DEF JobOK, Shaped, CallOK, Unrun, Renewed, Still, Ended
<1> QED BY <1>1, <1>2

LEMMA TailTodo ==
  ASSUME NEW s \in Seq(Request), s # <<>>
  PROVE  Tail(s) \in Seq(Request) /\ (Len(s) # 1 => Tail(s) # <<>>)
<1>1. Len(s) \in Nat /\ Len(s) # 0 BY DEF Request
<1>2. Tail(s) \in Seq(Request) /\ Len(Tail(s)) = Len(s) - 1 BY <1>1
<1> QED BY <1>1, <1>2

LEMMA OnwardIs ==
  ASSUME NEW r, Shaped(r), CallOK(r)
  PROVE  Onward(r) = [at |-> IF Len(r.todo) = 1 THEN "done" ELSE "next", todo |-> Tail(r.todo),
                      again |-> FALSE, bearer |-> 0, good |-> FALSE, code |-> "none", entries |-> {},
                      more |-> FALSE, tries |-> r.tries]
<1> DEFINE o == Over(r)
           to == IF Len(r.todo) = 1 THEN "done" ELSE "next"
<1>1. Shaped(o) /\ o.todo = r.todo BY OverKeeps
<1>2. Onward(r) = [o EXCEPT !.todo = Tail(@), !.at = to] BY Zenon DEF Onward
<1>3. o.again = FALSE /\ o.bearer = 0 /\ o.good = FALSE /\ o.code = "none" /\ o.entries = {}
      /\ o.more = FALSE /\ o.tries = r.tries
  BY OverKeeps, Zenon
<1> HIDE DEF o, to
<1>4. [o EXCEPT !.todo = Tail(@), !.at = to] =
        [at |-> to, todo |-> Tail(o.todo), again |-> o.again, bearer |-> o.bearer,
         good |-> o.good, code |-> o.code, entries |-> o.entries, more |-> o.more, tries |-> o.tries]
  BY <1>1, SetTodoAt, Zenon
<1>5. Onward(r) = [at |-> to, todo |-> Tail(r.todo), again |-> FALSE, bearer |-> 0, good |-> FALSE,
                   code |-> "none", entries |-> {}, more |-> FALSE, tries |-> r.tries]
  BY <1>1, <1>2, <1>3, <1>4, Zenon
<1> QED BY <1>5, Zenon DEF to

LEMMA OnwardOK ==
  ASSUME NEW r, Shaped(r), CallOK(r), r.todo # <<>>, NEW n \in {0, 1}
  PROVE  JobOK(Onward(r), n)
<1> DEFINE w == [at |-> IF Len(r.todo) = 1 THEN "done" ELSE "next", todo |-> Tail(r.todo),
                 again |-> FALSE, bearer |-> 0, good |-> FALSE, code |-> "none", entries |-> {},
                 more |-> FALSE, tries |-> r.tries]
<1>1. Tail(r.todo) \in Seq(Request) /\ (Len(r.todo) # 1 => Tail(r.todo) # <<>>)
  BY TailTodo DEF CallOK
<1>2. JobOK(w, n)
  BY <1>1, NetdiskAssumption
  DEF JobOK, Shaped, CallOK, Unrun, Renewed, Ended, NetdiskAssumption
<1> HIDE DEF w
<1>3. Onward(r) = w BY OnwardIs, Zenon DEF w
<1> QED BY <1>2, <1>3

LEMMA FailedOK ==
  ASSUME NetdiskInv, NEW j \in Job, job[j].at \notin Ended, NEW n \in {0, 1}
  PROVE  JobOK(Failed(j), n)
<1> DEFINE r == Over(job[j])
<1>1. Shaped(job[j]) /\ CallOK(job[j]) /\ job[j].todo # <<>>
  BY DEF NetdiskInv, JobsOK, JobOK, CallOK
<1>2. Shaped(r) /\ CallOK(r) /\ r.todo # <<>> BY <1>1, OverKeeps
<1> HIDE DEF r
<1>3. CASE Failed(j) = Onward(r) BY <1>2, <1>3, OnwardOK
<1>4. CASE r.tries < MaxReplays /\ Failed(j) = [r EXCEPT !.at = "replay"]
  <2> DEFINE w == [at |-> "replay", todo |-> r.todo, again |-> r.again, bearer |-> r.bearer,
                   good |-> r.good, code |-> r.code, entries |-> r.entries, more |-> r.more,
                   tries |-> r.tries]
  <2>1. [r EXCEPT !.at = "replay"] = w BY <1>2 DEF Shaped
  <2>2. JobOK(w, n) BY <1>2, <1>4 DEF JobOK, Shaped, CallOK, Unrun, Renewed, Ended
  <2> QED BY <1>4, <2>1, <2>2
<1>5. CASE Failed(j) = [r EXCEPT !.at = "failed"]
  BY <1>2, <1>5, MovesOn DEF Still, Ended
<1> QED BY <1>3, <1>4, <1>5 DEF Failed, r

(* One call moves on. *)
LEMMA PutOK ==
  ASSUME NetdiskInv, NEW j \in Job, NEW r, NEW n \in {0, 1}, JobOK(r, n), Puts(j, r),
         ran' = [ran EXCEPT ![j] = n] \/ (n = ran[j] /\ UNCHANGED ran)
  PROVE  JobsOK'
<1>1. /\ job' = [job EXCEPT ![j] = r] /\ job' = [k \in Job |-> IF k = j THEN r ELSE job[k]]
  BY DEF Puts, NetdiskInv, JobsOK
<1>2. ran' \in [Job -> Nat] /\ \A k \in Job : ran'[k] = IF k = j THEN n ELSE ran[k]
  BY DEF NetdiskInv, JobsOK
<1> QED BY <1>1, <1>2 DEF NetdiskInv, JobsOK

(* A request is sent, or a login is: a second time only with a new token. *)
LEMMA AttemptOK ==
  ASSUME NetdiskInv, NEW j \in Job, job[j].at \notin Ended, NEW stored \in 0..MaxTokens,
         NEW again \in BOOLEAN, again => stored = 0, Attempt(j, stored, again),
         ran' = [ran EXCEPT ![j] = 0] \/ (ran[j] = 0 /\ UNCHANGED ran)
  PROVE  JobsOK'
<1> DEFINE r == job[j]
<1>1. Shaped(r) /\ CallOK(r) /\ r.todo # <<>>
  BY DEF NetdiskInv, JobsOK, JobOK, CallOK
<1> HIDE DEF r
<1>2. CASE stored # 0
  <2> DEFINE good == stored \in accepted
  <2>a. Puts(j, [r EXCEPT !.at = "sent", !.bearer = stored, !.again = again, !.good = good])
    BY <1>2, Zenon DEF Attempt, r
  <2>b. good \in BOOLEAN OBVIOUS
  <2> HIDE DEF good
  <2> DEFINE w1 == [at |-> "sent", todo |-> r.todo, again |-> r.again, bearer |-> r.bearer, good |-> r.good,
                    code |-> r.code, entries |-> r.entries, more |-> r.more, tries |-> r.tries]
             w2 == [at |-> "sent", todo |-> r.todo, again |-> r.again, bearer |-> stored, good |-> r.good,
                    code |-> r.code, entries |-> r.entries, more |-> r.more, tries |-> r.tries]
             w3 == [at |-> "sent", todo |-> r.todo, again |-> again, bearer |-> stored, good |-> r.good,
                    code |-> r.code, entries |-> r.entries, more |-> r.more, tries |-> r.tries]
             w4 == [at |-> "sent", todo |-> r.todo, again |-> again, bearer |-> stored, good |-> good,
                    code |-> r.code, entries |-> r.entries, more |-> r.more, tries |-> r.tries]
  <2>1. [r EXCEPT !.at = "sent"] = w1 BY <1>1 DEF Shaped
  <2>2. [w1 EXCEPT !.bearer = stored] = w2 OBVIOUS
  <2>3. [w2 EXCEPT !.again = again] = w3 OBVIOUS
  <2>4. [w3 EXCEPT !.good = good] = w4 OBVIOUS
  <2> HIDE DEF w1, w2, w3, w4
  <2>5. [r EXCEPT !.at = "sent", !.bearer = stored, !.again = again, !.good = good] = w4
    BY <2>1, <2>2, <2>3, <2>4
  <2>6. ~again BY <1>2
  <2>7. JobOK(w4, 0)
    BY <1>1, <2>b, <2>6 DEF JobOK, Shaped, CallOK, Unrun, Renewed, w4
  <2>8. Puts(j, w4) BY <2>a, <2>5, Zenon
  <2> QED BY <2>7, <2>8, PutOK
<1>3. CASE stored = 0 /\ creds
  <2> DEFINE w == [at |-> "login", todo |-> r.todo, again |-> again, bearer |-> r.bearer,
                   good |-> r.good, code |-> r.code, entries |-> r.entries, more |-> r.more,
                   tries |-> r.tries]
  <2>1. Puts(j, [r EXCEPT !.at = "login", !.again = again]) BY <1>3, Zenon DEF Attempt, r
  <2>2. [r EXCEPT !.at = "login", !.again = again] = w BY <1>1, SetAtAgain, Zenon
  <2>3. JobOK(w, 0) BY <1>1 DEF JobOK, Shaped, CallOK, Unrun, Renewed, Ended
  <2> HIDE DEF w
  <2>4. Puts(j, w) BY <2>1, <2>2, Zenon
  <2> QED BY <2>3, <2>4, PutOK
<1>4. CASE stored = 0 /\ ~creds
  <2>1. Puts(j, Failed(j)) BY <1>4 DEF Attempt
  <2>2. JobOK(Failed(j), 0) BY FailedOK
  <2> QED BY <2>1, <2>2, PutOK
<1> QED BY <1>2, <1>3, <1>4

LEMMA Counts == ASSUME NetdiskInv, NEW j \in Job
                PROVE  /\ ran[j] \in {0, 1} /\ JobOK(job[j], ran[j]) /\ Shaped(job[j]) /\ CallOK(job[j])
                       /\ plan[j] \in Plans /\ token \in 0..MaxTokens
BY DEF NetdiskInv, JobsOK, JobOK, Unrun, WorldOK

LEMMA JobsStep == ASSUME NetdiskInv, Next PROVE JobsOK'
<1>1. ASSUME NEW j \in Job, Begins(j) PROVE JobsOK'
  <2>1. /\ job[j].at \notin Ended /\ Attempt(j, token, FALSE) /\ ran' = [ran EXCEPT ![j] = 0]
    BY <1>1 DEF Begins, Ended
  <2> QED BY <2>1, AttemptOK, Counts
<1>2. ASSUME NEW j \in Job, LogsIn(j) PROVE JobsOK'
  <2> DEFINE r == job[j]
  <2>0. JobOK(r, ran[j]) /\ Shaped(r) /\ CallOK(r) /\ ran[j] \in {0, 1} BY Counts
  <2>1. PICK t \in 1..MaxTokens : Puts(j, [r EXCEPT !.at = "sent", !.bearer = t, !.good = TRUE])
    BY <1>2 DEF LogsIn
  <2>2. r.at = "login" /\ UNCHANGED ran BY <1>2 DEF LogsIn, history
  <2> HIDE DEF r
  <2> DEFINE w == [at |-> "sent", todo |-> r.todo, again |-> r.again, bearer |-> t, good |-> TRUE, code |-> r.code, entries |-> r.entries, more |-> r.more, tries |-> r.tries]
  <2>3. [r EXCEPT !.at = "sent", !.bearer = t, !.good = TRUE] = w
    BY <2>0, SetAtBearerGood, Zenon
  <2>4. JobOK(w, ran[j])
    BY <2>0, <2>2 DEF JobOK, Shaped, CallOK, Unrun, Renewed, Ended
  <2> HIDE DEF w
  <2>5. Puts(j, w) BY <2>1, <2>3, Zenon
  <2> QED BY <2>0, <2>2, <2>4, <2>5, PutOK
<1>3. ASSUME NEW j \in Job, Serves(j) PROVE JobsOK'
  <2> DEFINE r == job[j]
             code == IF r.bearer \in accepted THEN Answer(Want(j)) ELSE "401"
             page == IF Want(j).op = "list" /\ code = "ok" /\ Want(j).page <= Len(drive[Want(j).dir])
                     THEN {drive[Want(j).dir][Want(j).page]} ELSE {}
             more == Want(j).op = "list" /\ (lying \/ Want(j).page < Len(drive[Want(j).dir]))
             n == IF code = "ok" THEN 1 ELSE 0
  <2>0. JobOK(r, ran[j]) /\ Shaped(r) /\ CallOK(r) /\ ran[j] \in {0, 1} BY Counts
  <2>1. r.at = "sent" BY <1>3 DEF Serves
  <2>2. ran[j] = 0 BY <2>0, <2>1 DEF JobOK, Unrun
  <2>3. Puts(j, [r EXCEPT !.at = "answered", !.code = code, !.entries = page, !.more = more])
    BY <1>3 DEF Serves
  <2>4. ran' = [ran EXCEPT ![j] = n] \/ (n = ran[j] /\ UNCHANGED ran)
    <3>1. CASE code = "ok"
      <4>1. ran' = [ran EXCEPT ![j] = @ + 1] BY <1>3, <3>1 DEF Serves
      <4> QED BY <2>2, <3>1, <4>1
    <3>2. CASE code # "ok"
      <4>1. UNCHANGED ran BY <1>3, <3>2 DEF Serves, history
      <4> QED BY <2>2, <3>2, <4>1
    <3> QED BY <3>1, <3>2
  <2>c. n \in {0, 1} /\ (code = "401" => n = 0) OBVIOUS
  <2> HIDE DEF r, code, page, more, n
  <2> DEFINE w1 == [at |-> "answered", todo |-> r.todo, again |-> r.again, bearer |-> r.bearer,
                    good |-> r.good, code |-> r.code, entries |-> r.entries, more |-> r.more,
                    tries |-> r.tries]
             w2 == [at |-> "answered", todo |-> r.todo, again |-> r.again, bearer |-> r.bearer,
                    good |-> r.good, code |-> code, entries |-> r.entries, more |-> r.more,
                    tries |-> r.tries]
             w3 == [at |-> "answered", todo |-> r.todo, again |-> r.again, bearer |-> r.bearer,
                    good |-> r.good, code |-> code, entries |-> page, more |-> r.more,
                    tries |-> r.tries]
             w4 == [at |-> "answered", todo |-> r.todo, again |-> r.again, bearer |-> r.bearer,
                    good |-> r.good, code |-> code, entries |-> page, more |-> more,
                    tries |-> r.tries]
  <2>s1. [r EXCEPT !.at = "answered"] = w1 BY <2>0 DEF Shaped
  <2>s2. [w1 EXCEPT !.code = code] = w2 OBVIOUS
  <2>s3. [w2 EXCEPT !.entries = page] = w3 OBVIOUS
  <2>s4. [w3 EXCEPT !.more = more] = w4 OBVIOUS
  <2> HIDE DEF w1, w2, w3, w4
  <2>s5. [r EXCEPT !.at = "answered", !.code = code, !.entries = page, !.more = more] = w4
    BY <2>s1, <2>s2, <2>s3, <2>s4
  <2>7. JobOK(w4, n)
    BY <2>0, <2>1, <2>c DEF JobOK, Shaped, CallOK, Unrun, Renewed, Ended, w4
  <2>8. Puts(j, w4) BY <2>3, <2>s5, Zenon
  <2> QED BY <2>4, <2>c, <2>7, <2>8, PutOK
<1>4. ASSUME NEW j \in Job, Receives(j) PROVE JobsOK'
  <2> DEFINE r == job[j]
  <2>0. JobOK(r, ran[j]) /\ Shaped(r) /\ CallOK(r) /\ ran[j] \in {0, 1} BY Counts
  <2>1. r.at = "answered" /\ r.todo # <<>> /\ UNCHANGED ran
    BY <1>4, <2>0 DEF Receives, history, CallOK, Ended
  <2>2. CASE r.code = "401" /\ ~r.again
    <3>1. token' = 0 /\ Attempt(j, token', TRUE) BY <1>4, <2>2 DEF Receives, Cleared
    <3>2. Attempt(j, 0, TRUE) BY <3>1
    <3>3. ran[j] = 0 BY <2>0, <2>1, <2>2 DEF JobOK, Unrun
    <3>4. 0 \in 0..MaxTokens BY NetdiskAssumption DEF NetdiskAssumption
    <3> QED BY <2>1, <3>2, <3>3, <3>4, AttemptOK DEF Ended
  <2>3. CASE ~(r.code = "401" /\ ~r.again)
    <3>1. \/ Puts(j, Failed(j))
          \/ Puts(j, [r EXCEPT !.at = "store"])
          \/ Puts(j, [r EXCEPT !.at = "done"])
          \/ Puts(j, Onward(r))
      BY <1>4, <2>3 DEF Receives
    <3>2. JobOK(Failed(j), ran[j]) BY <2>0, <2>1, FailedOK DEF Ended
    <3>3. JobOK([r EXCEPT !.at = "store"], ran[j]) /\ JobOK([r EXCEPT !.at = "done"], ran[j])
      BY <2>0, <2>1, MovesOn DEF Still
    <3>4. JobOK(Onward(r), ran[j]) BY <2>0, <2>1, OnwardOK
    <3> HIDE DEF r
    <3> QED BY <2>0, <2>1, <3>1, <3>2, <3>3, <3>4, PutOK
  <2> QED BY <2>2, <2>3
<1>5. ASSUME NEW j \in Job, Registers(j) PROVE JobsOK'
  <2> DEFINE r == job[j]
             to == IF plan[j].kind = "index" THEN "mark" ELSE "done"
  <2>0. JobOK(r, ran[j]) /\ Shaped(r) /\ CallOK(r) /\ ran[j] \in {0, 1} BY Counts
  <2>1. r.at = "store" /\ Puts(j, [r EXCEPT !.at = to]) /\ UNCHANGED ran
    BY <1>5 DEF Registers, history
  <2>2. r.todo # <<>> BY <2>0, <2>1 DEF CallOK, Ended
  <2>3. JobOK([r EXCEPT !.at = to], ran[j]) BY <2>0, <2>2, MovesOn DEF Still
  <2> QED BY <2>0, <2>1, <2>3, PutOK
<1>6. ASSUME NEW j \in Job, Marks(j) PROVE JobsOK'
  <2> DEFINE old == job[j]
             todo == old.todo \o Subdirs(old)
             r == [old EXCEPT !.todo = todo]
             w == [at |-> old.at, todo |-> todo, again |-> old.again, bearer |-> old.bearer, good |-> old.good, code |-> old.code, entries |-> old.entries, more |-> old.more, tries |-> old.tries]
  <2>0. JobOK(old, ran[j]) /\ Shaped(old) /\ CallOK(old) /\ ran[j] \in {0, 1} BY Counts
  <2>1. old.at = "mark" /\ UNCHANGED ran BY <1>6 DEF Marks, history
  <2>2. r = w BY <2>0, SetTodo, Zenon
  <2>3. todo \in Seq(Request) /\ todo # <<>>
    <3>1. old.todo \in Seq(Request) /\ old.todo # <<>> BY <2>0, <2>1 DEF CallOK, Ended
    <3>2. Subdirs(old) \in Seq(Request)
      <4>1. List(Sub) \in Request BY DEF List, Ask, Request, Dir
      <4> HIDE DEF old
      <4> QED BY <4>1 DEF Subdirs
    <3> HIDE DEF old
    <3> QED BY <3>1, <3>2
  <2>4. Shaped(r) /\ CallOK(r) /\ r.todo = todo
    <3> HIDE DEF todo, old
    <3>1. Shaped(w) /\ CallOK(w) /\ w.todo = todo BY <2>0, <2>3 DEF Shaped, CallOK
    <3> HIDE DEF w, r
    <3> QED BY <2>2, <3>1
  <2>5. \/ Puts(j, [Over(r) EXCEPT !.todo = NextPage(@), !.at = "next"])
        \/ Puts(j, Onward(r))
    BY <1>6 DEF Marks
  <2> HIDE DEF r, todo, w, old
  <2>6. JobOK(Onward(r), ran[j]) BY <2>0, <2>3, <2>4, OnwardOK
  <2>7. JobOK([Over(r) EXCEPT !.todo = NextPage(@), !.at = "next"], ran[j])
    <3> DEFINE page == NextPage(r.todo)
               o == Over(r)
               u == [at |-> "next", todo |-> page, again |-> FALSE, bearer |-> 0, good |-> FALSE, code |-> "none", entries |-> {}, more |-> FALSE, tries |-> r.tries]
    <3>1. Shaped(o) /\ o.todo = r.todo BY <2>4, OverKeeps
    <3>2. o.again = FALSE /\ o.bearer = 0 /\ o.good = FALSE /\ o.code = "none" /\ o.entries = {}
          /\ o.more = FALSE /\ o.tries = r.tries
      BY <2>4, OverKeeps, Zenon
    <3>3. page \in Seq(Request) /\ page # <<>>
      <4>1. Head(todo) \in Request /\ Tail(todo) \in Seq(Request) BY <2>3
      <4> DEFINE m == IF Head(todo).page < MaxPage THEN Head(todo).page + 1 ELSE MaxPage
                 q == [Head(todo) EXCEPT !.page = m]
      <4>2. m \in Nat BY <4>1, NetdiskAssumption DEF Request, NetdiskAssumption
      <4> HIDE DEF m
      <4>3. q \in Request BY <4>1, <4>2 DEF Request
      <4>4. page = <<q>> \o Tail(todo) BY <2>4 DEF NextPage, m
      <4> HIDE DEF q, page
      <4> QED BY <4>1, <4>3, <4>4
    <3> HIDE DEF o
    <3>4. [o EXCEPT !.todo = NextPage(@), !.at = "next"] =
            [at |-> "next", todo |-> NextPage(o.todo), again |-> o.again, bearer |-> o.bearer,
             good |-> o.good, code |-> o.code, entries |-> o.entries, more |-> o.more,
             tries |-> o.tries]
      BY <3>1, SetTodoAt, Zenon
    <3>5. [o EXCEPT !.todo = NextPage(@), !.at = "next"] = u BY <3>1, <3>2, <3>4, Zenon
    <3> HIDE DEF page
    <3>6. JobOK(u, ran[j])
      BY <2>0, <2>4, <3>3, NetdiskAssumption
      DEF JobOK, Shaped, CallOK, Unrun, Renewed, Ended, NetdiskAssumption
    <3> HIDE DEF u
    <3> QED BY <3>5, <3>6 DEF o
  <2> QED BY <2>0, <2>1, <2>5, <2>6, <2>7, PutOK
<1>7. ASSUME NEW j \in Job, Replays(j) PROVE JobsOK'
  <2> DEFINE r == job[j]
             todo == plan[j].todo
  <2>0. JobOK(r, ran[j]) /\ Shaped(r) /\ CallOK(r) /\ ran[j] \in {0, 1} /\ plan[j] \in Plans BY Counts
  <2>1. /\ r.at = "replay" /\ UNCHANGED ran
        /\ Puts(j, [r EXCEPT !.at = "next", !.tries = @ + 1, !.todo = todo])
    BY <1>7 DEF Replays, Restart
  <2>2. todo \in Seq(Request) /\ todo # <<>> BY <2>0 DEF Plans
  <2> HIDE DEF r, todo
  <2> DEFINE w == [at |-> "next", todo |-> todo, again |-> r.again, bearer |-> r.bearer, good |-> r.good, code |-> r.code, entries |-> r.entries, more |-> r.more, tries |-> r.tries + 1]
  <2>3. [r EXCEPT !.at = "next", !.tries = @ + 1, !.todo = todo] = w
    <3>1. Shaped(r) BY <2>0
    <3> QED BY ONLY <3>1, SetAtTriesTodo, Zenon
  <2>4. JobOK(w, ran[j])
    <3>1. Shaped(w) BY DEF Shaped
    <3>2. CallOK(w)
      <4>1. r.tries \in 0..MaxReplays /\ r.tries < MaxReplays BY <2>0, <2>1 DEF JobOK, CallOK
      <4>2. r.tries + 1 \in 0..MaxReplays BY <4>1, NetdiskAssumption DEF NetdiskAssumption
      <4>3. r.again \in BOOLEAN /\ r.good \in BOOLEAN /\ r.bearer \in 0..MaxTokens
        BY <2>0 DEF CallOK
      <4> QED BY <2>2, <4>2, <4>3 DEF CallOK
    <3>3. Unrun(w, ran[j]) /\ Renewed(w) BY <2>0 DEF Unrun, Renewed
    <3> QED BY <3>1, <3>2, <3>3 DEF JobOK
  <2> HIDE DEF w
  <2>5. Puts(j, w) BY <2>1, <2>3, Zenon
  <2> QED BY <2>0, <2>1, <2>4, <2>5, PutOK
<1>8. ASSUME NEW j \in Job, TimesOut(j) PROVE JobsOK'
  <2>1. job[j].at \notin Ended /\ Puts(j, Failed(j)) /\ UNCHANGED ran
    BY <1>8 DEF TimesOut, Unanswered, Ended, history
  <2>2. JobOK(Failed(j), ran[j]) BY <2>1, FailedOK, Counts
  <2> QED BY <2>1, <2>2, PutOK, Counts
<1>9. ASSUME NEW j \in Job, StoreFails(j) PROVE JobsOK'
  <2>1. job[j].at \notin Ended /\ Puts(j, Failed(j)) /\ UNCHANGED ran
    BY <1>9 DEF StoreFails, Ended, history
  <2>2. JobOK(Failed(j), ran[j]) BY <2>1, FailedOK, Counts
  <2> QED BY <2>1, <2>2, PutOK, Counts
<1>10. ASSUME NEW j \in Job, Cancels(j) PROVE JobsOK'
  <2> DEFINE r == job[j]
  <2>0. JobOK(r, ran[j]) /\ Shaped(r) /\ CallOK(r) /\ ran[j] \in {0, 1} BY Counts
  <2>1. Puts(j, [r EXCEPT !.at = "cancelled"]) /\ UNCHANGED ran BY <1>10 DEF Cancels, history
  <2>2. JobOK([r EXCEPT !.at = "cancelled"], ran[j]) BY <2>0, MovesOn DEF Still, Ended
  <2> QED BY <2>0, <2>1, <2>2, PutOK
<1>11. ASSUME NEW p \in Path, Tags(p) PROVE JobsOK'
  <2>1. UNCHANGED <<job, ran>> BY <1>11 DEF Tags, history
  <2> QED BY <2>1 DEF NetdiskInv, JobsOK
<1>12. ASSUME NEW t \in 1..MaxTokens, Expires(t) PROVE JobsOK'
  <2>1. UNCHANGED <<job, ran>> BY <1>12 DEF Expires, history
  <2> QED BY <2>1 DEF NetdiskInv, JobsOK
<1>13. CASE Unloads
  <2>1. UNCHANGED <<job, ran>> BY <1>13 DEF Unloads, history
  <2> QED BY <2>1 DEF NetdiskInv, JobsOK
<1>14. CASE Closes
  <2>1. /\ job' = [j \in Job |-> IF job[j].at \in {"login", "sent", "answered"} THEN Failed(j) ELSE job[j]]
        /\ UNCHANGED ran
    BY <1>14 DEF Closes, history
  <2>2. ASSUME NEW j \in Job PROVE JobOK(job'[j], ran'[j])
    <3>1. CASE job[j].at \in {"login", "sent", "answered"}
      BY <2>1, <3>1, FailedOK, Counts DEF Ended
    <3>2. CASE job[j].at \notin {"login", "sent", "answered"} BY <2>1, <3>2, Counts
    <3> QED BY <3>1, <3>2
  <2> QED BY <2>1, <2>2 DEF NetdiskInv, JobsOK
<1> QED
  BY <1>1, <1>2, <1>3, <1>4, <1>5, <1>6, <1>7, <1>8, <1>9, <1>10, <1>11, <1>12,
     <1>13, <1>14 DEF Next, Steps

LEMMA WorldStep == ASSUME NetdiskInv, Next PROVE WorldOK'
<1>1. ASSUME NEW j \in Job, Begins(j) PROVE WorldOK'
  BY <1>1, NetdiskAssumption DEF NetdiskAssumption, Begins, NetdiskInv,
     WorldOK, setup, session
<1>2. ASSUME NEW j \in Job, LogsIn(j) PROVE WorldOK'
  <2>1. UNCHANGED <<plan, rows>> BY <1>2 DEF LogsIn, setup
  <2>2. PICK t \in 1..MaxTokens : token' = t /\ accepted' = (accepted \cap Held) \cup {t}
    BY <1>2 DEF LogsIn
  <2>3. token' \in 0..MaxTokens /\ accepted' \subseteq 1..MaxTokens
    <3>1. accepted \subseteq 1..MaxTokens /\ t \in 0..MaxTokens
      BY NetdiskAssumption DEF NetdiskInv, WorldOK
    <3> QED BY <2>2, <3>1
  <2> QED BY <2>1, <2>3 DEF NetdiskInv, WorldOK
<1>3. ASSUME NEW j \in Job, Serves(j) PROVE WorldOK'
  BY <1>3, NetdiskAssumption DEF NetdiskAssumption, Serves, NetdiskInv,
     WorldOK, setup, session
<1>4. ASSUME NEW j \in Job, Receives(j) PROVE WorldOK'
  <2>1. UNCHANGED <<accepted, plan, rows>> BY <1>4 DEF Receives, setup
  <2>2. token' = 0 \/ token' = token BY <1>4, Zenon DEF Receives, Cleared
  <2>3. token' \in 0..MaxTokens
    BY <2>2, NetdiskAssumption DEF NetdiskInv, WorldOK
  <2> QED BY <2>1, <2>3 DEF NetdiskInv, WorldOK
<1>5. ASSUME NEW j \in Job, Registers(j) PROVE WorldOK'
  <2>1. UNCHANGED <<token, accepted, plan>> BY <1>5 DEF Registers, setup, session
  <2>2. rows' \in [Path -> {NoRow} \cup [known : {TRUE}, indexed : BOOLEAN]]
    BY <1>5 DEF Registers, Merged, Registered, NoRow, NetdiskInv, WorldOK
  <2> QED BY <2>1, <2>2 DEF NetdiskInv, WorldOK
<1>6. ASSUME NEW j \in Job, Marks(j) PROVE WorldOK'
  <2>1. UNCHANGED <<token, accepted, plan>> BY <1>6 DEF Marks, setup, session
  <2>2. rows' \in [Path -> {NoRow} \cup [known : {TRUE}, indexed : BOOLEAN]]
    <3>1. ASSUME NEW p \in Path, rows[p].known
          PROVE  [rows[p] EXCEPT !.indexed = TRUE] \in [known : {TRUE}, indexed : BOOLEAN]
      <4>1. rows[p] \in {NoRow} \cup [known : {TRUE}, indexed : BOOLEAN] BY DEF NetdiskInv, WorldOK
      <4>2. ~NoRow.known BY DEF NoRow
      <4>3. rows[p] # NoRow BY <3>1, <4>2, Zenon
      <4>4. rows[p] \in [known : {TRUE}, indexed : BOOLEAN] BY <4>1, <4>3
      <4> QED BY <4>4
    <3> QED BY <1>6, <3>1 DEF Marks, NetdiskInv, WorldOK
  <2> QED BY <2>1, <2>2 DEF NetdiskInv, WorldOK
<1>7. ASSUME NEW j \in Job, Replays(j) PROVE WorldOK'
  BY <1>7, NetdiskAssumption DEF NetdiskAssumption, Replays, NetdiskInv,
     WorldOK, setup, session
<1>8. ASSUME NEW j \in Job, TimesOut(j) PROVE WorldOK'
  BY <1>8, NetdiskAssumption DEF NetdiskAssumption, TimesOut, NetdiskInv,
     WorldOK, setup, session
<1>9. ASSUME NEW j \in Job, StoreFails(j) PROVE WorldOK'
  BY <1>9, NetdiskAssumption DEF NetdiskAssumption, StoreFails, NetdiskInv,
     WorldOK, setup, session
<1>10. ASSUME NEW j \in Job, Cancels(j) PROVE WorldOK'
  BY <1>10, NetdiskAssumption DEF NetdiskAssumption, Cancels, NetdiskInv,
     WorldOK, setup, session
<1>11. ASSUME NEW p \in Path, Tags(p) PROVE WorldOK'
  <2>1. UNCHANGED <<token, accepted, plan>> BY <1>11 DEF Tags, setup, session
  <2>2. rows' \in [Path -> {NoRow} \cup [known : {TRUE}, indexed : BOOLEAN]]
    BY <1>11 DEF Tags, Registered, NetdiskInv, WorldOK
  <2> QED BY <2>1, <2>2 DEF NetdiskInv, WorldOK
<1>12. ASSUME NEW t \in 1..MaxTokens, Expires(t) PROVE WorldOK'
  BY <1>12, NetdiskAssumption DEF NetdiskAssumption, Expires, NetdiskInv,
     WorldOK, setup, session
<1>13. CASE Unloads
  BY <1>13, NetdiskAssumption DEF NetdiskAssumption, Unloads, NetdiskInv,
     WorldOK, setup, session
<1>14. CASE Closes
  BY <1>14, NetdiskAssumption DEF NetdiskAssumption, Closes, NetdiskInv,
     WorldOK, setup, session
<1> QED
  BY <1>1, <1>2, <1>3, <1>4, <1>5, <1>6, <1>7, <1>8, <1>9, <1>10, <1>11, <1>12,
     <1>13, <1>14 DEF Next, Steps

-----------------------------------------------------------------------------
LEMMA Initially == Init => NetdiskInv
<1> SUFFICES ASSUME Init PROVE NetdiskInv OBVIOUS
<1>1. PICK s \in Scenarios : plan = s.plan /\ token = s.token BY DEF Init
<1>2. plan \in [Job -> Plans] /\ token \in 0..MaxTokens
  BY <1>1, NetdiskAssumption
<1>3. WorldOK BY <1>2, NetdiskAssumption DEF Init, WorldOK, NoRow, NetdiskAssumption
<1>4. ASSUME NEW j \in Job PROVE JobOK(Idle(plan[j]), 0)
  <2>1. plan[j].todo \in Seq(Request) /\ plan[j].todo # <<>> BY <1>2 DEF Plans
  <2> QED BY <2>1, NetdiskAssumption
          DEF Idle, JobOK, Shaped, CallOK, Unrun, Renewed, Ended, NetdiskAssumption
<1>5. job = [j \in Job |-> Idle(plan[j])] /\ ran = [j \in Job |-> 0] BY DEF Init
<1>6. JobsOK BY <1>4, <1>5 DEF JobsOK
<1> QED BY <1>3, <1>6 DEF NetdiskInv

LEMMA InvStep == NetdiskInv /\ [Next]_vars => NetdiskInv'
<1>1. NetdiskInv /\ Next => NetdiskInv' BY JobsStep, WorldStep DEF NetdiskInv
<1>2. NetdiskInv /\ UNCHANGED vars => NetdiskInv'
  BY DEF vars, setup, session, history, NetdiskInv, WorldOK, JobsOK
<1> QED BY <1>1, <1>2

THEOREM InvAlways == Spec => []NetdiskInv
BY Initially, InvStep, PTL DEF Spec

(* Tokens, requests and rows keep their types, and a call that has not ended has
   a request to make. *)
THEOREM TypesHold == Spec => []TypeOK
<1>1. NetdiskInv => TypeOK BY DEF NetdiskInv, WorldOK, JobsOK, JobOK, TypeOK
<1> QED BY <1>1, InvAlways, PTL

(* No request is carried out twice: only a refused one is sent again. *)
THEOREM ExecutedOnceAlways == Spec => []ExecutedOnce
<1>1. NetdiskInv => ExecutedOnce BY DEF NetdiskInv, JobsOK, JobOK, Unrun, ExecutedOnce
<1> QED BY <1>1, InvAlways, PTL

(* A call is refused a second time only with the token of a login of its own. *)
THEOREM AuthHealsAlways == Spec => []AuthHeals
<1>1. NetdiskInv => AuthHeals BY DEF NetdiskInv, JobsOK, JobOK, Renewed, AuthHeals
<1> QED BY <1>1, InvAlways, PTL

-----------------------------------------------------------------------------
(* Sequences, and the least of a set of numbers. *)

(* Every entry of s is in t, where it was or further on. *)
Grows(s, t) == \A i \in DOMAIN s : \E k \in DOMAIN t : i <= k /\ t[k] = s[i]

LEMMA InsertGrows ==
  ASSUME NEW S, NEW s \in Seq(S), NEW e \in S, NEW i \in 1..(Len(s) + 1)
  PROVE  InsertAt(s, i, e) \in Seq(S) /\ Grows(s, InsertAt(s, i, e))
<1> DEFINE a == SubSeq(s, 1, i - 1)
           b == SubSeq(s, i, Len(s))
           t == a \o <<e>> \o b
<1>0. Len(s) \in Nat /\ i \in Nat /\ i - 1 \in Nat OBVIOUS
<1>1. a \in Seq(S) /\ Len(a) = i - 1 /\ \A k \in 1..(i - 1) : a[k] = s[k]
  BY <1>0, SubSeqProperties
<1>2. b \in Seq(S) /\ Len(b) = Len(s) - i + 1 /\ \A k \in 1..(Len(s) - i + 1) : b[k] = s[k + i - 1]
  BY <1>0, SubSeqProperties
<1> HIDE DEF a, b
<1>3. t \in Seq(S) /\ Len(t) = Len(s) + 1 BY <1>0, <1>1, <1>2
<1>4. \A k \in 1..(i - 1) : t[k] = a[k] BY <1>0, <1>1, <1>2
<1>5. \A k \in 1..(Len(s) - i + 1) : t[k + i] = b[k] BY <1>0, <1>1, <1>2
<1> HIDE DEF t
<1>6. ASSUME NEW k \in DOMAIN s PROVE \E n \in DOMAIN t : k <= n /\ t[n] = s[k]
  <2>0. k \in 1..Len(s) /\ DOMAIN t = 1..(Len(s) + 1) BY <1>3
  <2>1. CASE k < i
    <3>1. k \in 1..(i - 1) /\ k \in DOMAIN t BY <2>0, <2>1, <1>0
    <3> QED BY <3>1, <2>0, <1>1, <1>4
  <2>2. CASE i <= k
    <3>1. k + 1 - i \in 1..(Len(s) - i + 1) /\ k + 1 \in DOMAIN t BY <2>0, <2>2, <1>0
    <3>2. t[k + 1] = b[k + 1 - i] /\ b[k + 1 - i] = s[k] BY <3>1, <1>0, <1>5, <1>2, <2>0
    <3>3. k <= k + 1 BY <2>0
    <3> QED BY <3>1, <3>2, <3>3
  <2> QED BY <2>0, <2>1, <2>2, <1>0
<1>7. InsertAt(s, i, e) = t BY Zenon DEF InsertAt, t, a, b
<1> QED BY <1>3, <1>6, <1>7 DEF Grows

LEMMA PrependGrows ==
  ASSUME NEW S, NEW s \in Seq(S), NEW a \in Seq(S)
  PROVE  a \o s \in Seq(S) /\ Grows(s, a \o s)
<1> DEFINE t == a \o s
<1>1. t \in Seq(S) /\ Len(t) = Len(a) + Len(s) /\ Len(s) \in Nat /\ Len(a) \in Nat OBVIOUS
<1>2. \A k \in 1..Len(s) : t[k + Len(a)] = s[k] OBVIOUS
<1> HIDE DEF t
<1>3. ASSUME NEW k \in DOMAIN s PROVE \E n \in DOMAIN t : k <= n /\ t[n] = s[k]
  <2>1. k \in 1..Len(s) /\ DOMAIN t = 1..(Len(a) + Len(s)) BY <1>1
  <2>2. k + Len(a) \in DOMAIN t /\ k <= k + Len(a) BY <1>1, <2>1
  <2> QED BY <2>1, <2>2, <1>2
<1> QED BY <1>1, <1>3 DEF Grows, t

LEMMA LeastNat == ASSUME NEW T, T \subseteq Nat, T # {} PROVE \E x \in T : \A y \in T : x <= y
<1> DEFINE R == OpToRel(<, Nat)
<1>1. IsWellFoundedOn(R, Nat) BY NatLessThanWellFounded, Zenon
<1>2. R = {ss \in Nat \X Nat : ss[1] < ss[2]} BY Zenon DEF OpToRel
<1> HIDE DEF R
<1>3. PICK x \in T : \A y \in T : ~(<<y, x>> \in R) BY <1>1, WFMin, Zenon
<1>4. ASSUME NEW y \in T PROVE x <= y
   <2>1. x \in Nat /\ y \in Nat OBVIOUS
   <2>2. ~(y < x)  BY <1>2, <1>3, <2>1
   <2> QED BY <2>1, <2>2
<1> QED BY <1>4

LEMMA RemoveFirstType ==
  ASSUME NEW S, NEW s \in Seq(S), NEW e
  PROVE  RemoveFirst(s, e) \in Seq(S)
<1>1. CASE ~\E i \in 1..Len(s) : s[i] = e BY <1>1, Zenon DEF RemoveFirst
<1>2. CASE \E i \in 1..Len(s) : s[i] = e
  <2> DEFINE I == {i \in 1..Len(s) : s[i] = e}
             n == CHOOSE x \in I : \A y \in I : x <= y
             a == SubSeq(s, 1, n - 1)
             b == SubSeq(s, n + 1, Len(s))
  <2>1. n \in 1..Len(s)
    <3>1. I \subseteq Nat /\ I # {} BY <1>2
    <3>2. \E x \in I : \A y \in I : x <= y BY ONLY <3>1, LeastNat
    <3>3. n \in I BY <3>2
    <3> QED BY <3>3
  <2>2. RemoveFirst(s, e) = a \o b 
    <3>1. I # {} BY <1>2
    <3>2. SelectInSeq(s, LAMBDA v : v = e) = n BY <3>1, Zenon DEF SelectInSeq, Min
    <3>3. RemoveFirst(s, e) = RemoveAt(s, n) BY <1>2, <3>2, Zenon DEF RemoveFirst
    <3> QED BY <3>3, Zenon DEF RemoveAt
  <2> HIDE DEF n
  <2>3. a \in Seq(S) /\ b \in Seq(S) BY <2>1, SubSeqProperties
  <2> HIDE DEF a, b
  <2> QED BY <2>2, <2>3
<1> QED BY <1>1, <1>2

-----------------------------------------------------------------------------
(* The drive. *)
Name == File \cup {Sub, "none"}
Drives == [Dir -> Seq(Name)]
Takes == {"rename", "remove", "move", "prune", "gather"}

LEMMA GrowsSame == ASSUME NEW S, NEW s \in Seq(S) PROVE Grows(s, s)
BY DEF Grows

LEMMA IntoIs ==
  ASSUME drive \in Drives, NEW d \in Dir, NEW s \in Seq(Name), NEW n \in Name, NEW dv \in Into(d, s, n)
  PROVE  /\ dv \in Drives /\ \A e \in Dir : e # d => dv[e] = drive[e]
         /\ Grows(s, dv[d])
<1>1. PICK i \in 1..(Len(s) + 1) : dv = [drive EXCEPT ![d] = InsertAt(s, i, n)] BY DEF Into
<1> DEFINE t == InsertAt(s, i, n)
<1>2. t \in Seq(Name) /\ Grows(s, t) BY InsertGrows
<1> HIDE DEF t
<1>3. dv = [drive EXCEPT ![d] = t] BY <1>1 DEF t
<1> QED BY <1>2, <1>3 DEF Drives

LEMMA DriveStep ==
  ASSUME drive \in Drives, NEW r \in Request, NEW dv \in After(r)
  PROVE  /\ dv \in Drives
         /\ \A d \in Dir : r.op \notin Takes \/ r.dir \notin {"root", d} => Grows(drive[d], dv[d])
<1> DEFINE rest == RemoveFirst(drive[r.dir], r.name)
           there == Other(r.dir)
           Goal == /\ dv \in Drives
                   /\ \A d \in Dir : r.op \notin Takes \/ r.dir \notin {"root", d} => Grows(drive[d], dv[d])
<1>0. r.dir \in Dir /\ r.name \in Name /\ r.to \in Name BY DEF Request, Name
<1>1. /\ r.dir \in Dir /\ there \in Dir /\ there # r.dir /\ r.name \in Name /\ r.to \in Name
      /\ \A d \in Dir : d = r.dir \/ d = there
  BY <1>0 DEF Other, Dir, Sub
<1>2. \A d \in Dir : drive[d] \in Seq(Name) /\ Grows(drive[d], drive[d]) BY GrowsSame DEF Drives
<1>3. rest \in Seq(Name) BY <1>1, <1>2, RemoveFirstType
<1> HIDE DEF rest, there
<1>4. CASE r.op = "mkdir"
  <2>1. dv \in Into(r.dir, drive[r.dir], r.name) BY <1>4 DEF After
  <2> QED BY <1>1, <1>2, <2>1, IntoIs
<1>5. CASE r.op = "rename"
  <2>1. dv \in Into(r.dir, rest, r.to) BY <1>5 DEF After, rest
  <2>2. dv \in Drives /\ \A e \in Dir : e # r.dir => dv[e] = drive[e] BY <1>1, <1>3, <2>1, IntoIs
  <2> QED BY <1>1, <1>2, <1>5, <2>2 DEF Takes
<1>6. CASE r.op = "copy"
  <2>1. dv \in Into(there, drive[there], r.to) BY <1>6 DEF After, there
  <2> QED BY <1>1, <1>2, <2>1, IntoIs
<1>7. CASE r.op = "move"
  <2>1. PICK d \in Into(there, drive[there], r.to) : dv = [d EXCEPT ![r.dir] = rest]
    BY <1>7 DEF After, there, rest
  <2>2. d \in Drives /\ Grows(drive[there], d[there]) BY <1>1, <1>2, <2>1, IntoIs
  <2>3. dv \in Drives /\ dv[there] = d[there] BY <1>1, <1>3, <2>1, <2>2 DEF Drives
  <2>4. Grows(drive[there], dv[there]) BY <2>2, <2>3
  <2> QED BY <1>1, <1>7, <2>3, <2>4 DEF Takes
<1>8. CASE r.op = "remove"
  <2> DEFINE e == IF r.name = Sub THEN <<>> ELSE [drive EXCEPT ![r.dir] = rest][Sub]
  <2>1. dv = [drive EXCEPT ![r.dir] = rest, ![Sub] = IF r.name = Sub THEN <<>> ELSE @] BY <1>8 DEF After, rest
  <2>2. dv \in Drives /\ \A d \in Dir : d # r.dir /\ d # Sub => dv[d] = drive[d]
    BY <1>1, <1>3, <2>1 DEF Drives, Dir
  <2>3. \A d \in Dir : r.dir \notin {"root", d} => d # r.dir /\ d # Sub BY <1>1 DEF Dir
  <2> QED BY <1>2, <1>8, <2>2, <2>3 DEF Takes
<1>9. CASE r.op = "prune"
  <2> DEFINE cut == RemoveFirst(drive["root"], Sub)
  <2>1. dv = IF r.dir = "root" /\ drive[Sub] = <<>> THEN [drive EXCEPT !["root"] = cut] ELSE drive
    BY <1>9 DEF After
  <2>2. cut \in Seq(Name) BY <1>2, RemoveFirstType DEF Dir
  <2> HIDE DEF cut
  <2>3. CASE r.dir = "root"
    <3>1. dv \in Drives BY <2>1, <2>2 DEF Drives, Dir
    <3> QED BY <1>9, <2>3, <3>1 DEF Takes
  <2>4. CASE r.dir # "root"
    <3>1. dv = drive BY <2>1, <2>4
    <3> QED BY <1>2, <3>1
  <2> QED BY <2>3, <2>4
<1>10. CASE r.op = "gather"
  <2> DEFINE all == drive[Sub] \o drive["root"]
  <2>1. dv = [drive EXCEPT ![Sub] = <<>>, !["root"] = all] BY <1>10 DEF After
  <2>2. all \in Seq(Name) /\ Grows(drive["root"], all) BY <1>2, PrependGrows DEF Dir
  <2> HIDE DEF all
  <2>3. <<>> \in Seq(Name) OBVIOUS
  <2>4. dv \in Drives /\ dv["root"] = all BY <2>1, <2>2, <2>3 DEF Drives, Dir
  <2>5. \A d \in Dir : r.dir \notin {"root", d} => d = "root" BY <1>1 DEF Dir
  <2> QED BY <1>10, <2>2, <2>4, <2>5 DEF Takes
<1>11. CASE r.op \in {"list", "link", "stat"}
  <2>1. dv = drive BY <1>11 DEF After
  <2> QED BY <1>2, <2>1
<1> QED BY <1>4, <1>5, <1>6, <1>7, <1>8, <1>9, <1>10, <1>11 DEF Request

-----------------------------------------------------------------------------
(* The walk of an index. *)

(* The answer to the first request is a page. *)
Listed(r) == r.at \in {"store", "mark"} \/ (r.at = "answered" /\ r.code = "ok")
Seen(r, d, n) == Listed(r) /\ r.todo[1].dir = d /\ n \in r.entries
(* The m-th request asks for the page of directory s that shows n, or for one before it. *)
Shows(s, r, n, m) ==
  \E i \in DOMAIN s :
    /\ s[i] = n /\ r.todo[m].page <= i
    /\ m = 1 /\ Listed(r) => r.more /\ r.entries # {} /\ r.todo[1].page < i
Coming(s, r, d, n) == \E m \in DOMAIN r.todo : r.todo[m].dir = d /\ Shows(s, r, n, m)
Found(s, r, d, n) == Seen(r, d, n) \/ Coming(s, r, d, n)

(* A file is indexed, or is found, or its directory is. *)
Covered(dv, row, r, p) ==
  \/ row.indexed
  \/ Found(dv[p[1]], r, p[1], p[2])
  \/ p[1] = Sub /\ Found(dv["root"], r, "root", Sub)
Off == {"failed", "cancelled", "replay"}
WalkAt(pl, r, dv, rw, st) ==
  pl.kind = "index" /\ r.at \notin Off =>
    /\ \A p \in st : Covered(dv, rw[p], r, p)
    /\ \A m \in DOMAIN r.todo : r.todo[m].op = "list"
    /\ r.at = "done" => r.todo = <<>>
    /\ r.at = "mark" => \A n \in r.entries \cap File : rw[<<r.todo[1].dir, n>>].known
PresentAt(dv, r, st) ==
  st \subseteq Dir \X File /\ (r.at # "done" => \A p \in st : \E i \in DOMAIN dv[p[1]] : dv[p[1]][i] = p[2])

WalkInv ==
  /\ drive \in Drives /\ DOMAIN steady = Job
  /\ \A j \in Job : plan[j].kind = "index" => \E d \in Dir : plan[j] = Index(d)
  /\ \A j \in Job : PresentAt(drive, job[j], steady[j])
  /\ \A j \in Job : WalkAt(plan[j], job[j], drive, rows, steady[j])

(* A call whose place in its walk is where it was. *)
Alike(r, q) ==
  /\ q.todo = r.todo /\ (Listed(q) <=> Listed(r))
  /\ Listed(r) => q.entries = r.entries /\ q.more = r.more
  /\ (q.at = "done" => r.at = "done") /\ (q.at \notin Off => r.at \notin Off)

LEMMA FoundKept ==
  ASSUME NEW r, NEW q, Alike(r, q), NEW s \in Seq(Name), NEW t \in Seq(Name), Grows(s, t),
         r.todo \in Seq(Request), NEW d, NEW n, Found(s, r, d, n)
  PROVE  Found(t, q, d, n)
<1>1. CASE Seen(r, d, n) BY <1>1 DEF Found, Seen, Alike
<1>2. CASE Coming(s, r, d, n)
  <2>1. PICK m \in DOMAIN r.todo : r.todo[m].dir = d /\ Shows(s, r, n, m) BY <1>2 DEF Coming
  <2>2. PICK i \in DOMAIN s : /\ s[i] = n /\ r.todo[m].page <= i
                              /\ m = 1 /\ Listed(r) => r.more /\ r.entries # {} /\ r.todo[1].page < i
    BY <2>1 DEF Shows
  <2>3. PICK k \in DOMAIN t : i <= k /\ t[k] = s[i] BY <2>2 DEF Grows
  <2>4. r.todo[m].page \in Nat /\ (m = 1 => r.todo[1].page \in Nat)
    <3>1. r.todo[m] \in Request BY <2>1
    <3> QED BY <3>1 DEF Request
  <2>5. i \in Nat /\ k \in Nat OBVIOUS
  <2>6. r.todo[m].page <= k /\ (m = 1 /\ r.todo[1].page < i => r.todo[1].page < k)
    BY <2>2, <2>3, <2>4, <2>5
  <2>7. m \in DOMAIN q.todo /\ q.todo[m] = r.todo[m] /\ q.todo[1] = r.todo[1] BY <2>1 DEF Alike
  <2>8. m = 1 /\ Listed(q) => q.more /\ q.entries # {} /\ q.todo[1].page < k
    BY <2>2, <2>6, <2>7 DEF Alike
  <2>9. Shows(t, q, n, m) BY <2>2, <2>3, <2>6, <2>7, <2>8 DEF Shows
  <2> QED BY <2>1, <2>7, <2>9 DEF Found, Coming
<1> QED BY <1>1, <1>2 DEF Found

(* What keeps a walk: entries of its directories only move on, rows keep what they have. *)
Better(old, new) == (old.known => new.known) /\ (old.indexed => new.indexed)
LEMMA WalkKept ==
  ASSUME NEW pl, NEW r, NEW q, q.at \in Off \/ Alike(r, q), r.todo \in Seq(Request),
         r.at \notin Ended => r.todo # <<>>, NEW dv \in Drives, NEW dw \in Drives, NEW rw, NEW rx, \A p \in Path : Better(rw[p], rx[p]),
         NEW st, NEW su, su \subseteq st, st \subseteq Dir \X File,
         q.at = "mark" => r.at = "mark" \/ \A n \in q.entries \cap File : rx[<<q.todo[1].dir, n>>].known,
         \A p \in su : Grows(dv[p[1]], dw[p[1]]) /\ (p[1] = Sub => Grows(dv["root"], dw["root"])),
         WalkAt(pl, r, dv, rw, st)
  PROVE  WalkAt(pl, q, dw, rx, su)
<1> SUFFICES ASSUME pl.kind = "index", q.at \notin Off PROVE WalkAt(pl, q, dw, rx, su)
  BY DEF WalkAt
<1>1. Alike(r, q) OBVIOUS
<1>2. /\ \A p \in st : Covered(dv, rw[p], r, p)
      /\ \A m \in DOMAIN r.todo : r.todo[m].op = "list"
      /\ r.at = "done" => r.todo = <<>>
      /\ r.at = "mark" => \A n \in r.entries \cap File : rw[<<r.todo[1].dir, n>>].known
  BY <1>1 DEF WalkAt, Alike
<1>3. ASSUME NEW p \in su PROVE Covered(dw, rx[p], q, p)
  <2>1. p \in st /\ p \in Path /\ p[1] \in Dir /\ "root" \in Dir BY DEF Path, Dir
  <2>2. /\ dv[p[1]] \in Seq(Name) /\ dw[p[1]] \in Seq(Name)
        /\ dv["root"] \in Seq(Name) /\ dw["root"] \in Seq(Name)
    BY <2>1 DEF Drives
  <2>3. Covered(dv, rw[p], r, p) BY <1>2, <2>1
  <2>4. rw[p].indexed => rx[p].indexed BY <2>1 DEF Better
  <2>5. Found(dv[p[1]], r, p[1], p[2]) => Found(dw[p[1]], q, p[1], p[2])
    BY <1>1, <2>2, FoundKept
  <2>6. p[1] = Sub /\ Found(dv["root"], r, "root", Sub) => Found(dw["root"], q, "root", Sub)
    BY <1>1, <2>2, FoundKept
  <2> QED BY <2>3, <2>4, <2>5, <2>6, Zenon DEF Covered
<1>4. \A m \in DOMAIN q.todo : q.todo[m].op = "list" BY <1>1, <1>2 DEF Alike
<1>5. q.at = "done" => q.todo = <<>> BY <1>1, <1>2 DEF Alike
<1>6. q.at = "mark" => \A n \in q.entries \cap File : rx[<<q.todo[1].dir, n>>].known
  <2> SUFFICES ASSUME q.at = "mark", NEW n \in q.entries \cap File PROVE rx[<<q.todo[1].dir, n>>].known
    OBVIOUS
  <2>0. SUFFICES ASSUME r.at = "mark" PROVE rx[<<q.todo[1].dir, n>>].known OBVIOUS
  <2>1. r.at = "mark" /\ q.todo = r.todo /\ q.entries = r.entries BY <1>1, <2>0 DEF Alike, Listed
  <2>2. rw[<<r.todo[1].dir, n>>].known BY <1>2, <2>1
  <2>3. <<r.todo[1].dir, n>> \in Path
    <3>1. r.todo[1] \in Request BY <2>1 DEF Ended
    <3> QED BY <3>1 DEF Request, Path
  <2> QED BY <2>1, <2>2, <2>3 DEF Better
<1> QED BY <1>3, <1>4, <1>5, <1>6 DEF WalkAt

(* A failed index is over, or goes back to its start. *)
LEMMA FailedIsOff ==
  ASSUME NetdiskInv, NEW j \in Job, plan[j].kind = "index"
  PROVE  Failed(j).at \in Off
<1>1. Shaped(job[j]) /\ CallOK(job[j]) BY DEF NetdiskInv, JobsOK, JobOK
<1> DEFINE r == Over(job[j])
<1>2. Shaped(r) BY <1>1, OverKeeps
<1> HIDE DEF r
<1>3. [r EXCEPT !.at = "replay"].at = "replay" /\ [r EXCEPT !.at = "failed"].at = "failed"
  BY <1>2 DEF Shaped
<1>4. ~InBatch(j) /\ ~Verifying(j) /\ ~Alternative(j) BY DEF InBatch, Verifying, Alternative
<1>5. Failed(j) = [r EXCEPT !.at = "replay"] \/ Failed(j) = [r EXCEPT !.at = "failed"]
  BY <1>4, Zenon DEF Failed, r
<1> QED BY <1>3, <1>5 DEF Off

(* The server lists a page: it shows the entry looked for, or that comes later. *)
LEMMA ServedWalk ==
  ASSUME NEW pl, NEW r, NEW q, NEW dv \in Drives, NEW rw, NEW st, r.todo \in Seq(Request), r.todo # <<>>,
         r.at = "sent", WalkAt(pl, r, dv, rw, st), pl.kind = "index", NEW s, s = dv[r.todo[1].dir],
         q.at = "answered", q.todo = r.todo, q.code = "ok",
         q.entries = IF r.todo[1].page <= Len(s) THEN {s[r.todo[1].page]} ELSE {},
         r.todo[1].page < Len(s) => q.more
  PROVE  WalkAt(pl, q, dv, rw, st)
<1>1. ~Listed(r) /\ Listed(q) /\ r.at \notin Off /\ q.at # "done" /\ q.at # "mark" BY DEF Listed, Off
<1>2. /\ \A p \in st : Covered(dv, rw[p], r, p)
      /\ \A m \in DOMAIN r.todo : r.todo[m].op = "list"
  BY <1>1 DEF WalkAt
<1>3. r.todo[1] \in Request /\ r.todo[1].page \in Nat /\ r.todo[1].dir \in Dir
  <2>1. r.todo[1] \in Request OBVIOUS
  <2> QED BY <2>1 DEF Request
<1>4. s \in Seq(Name) BY <1>3 DEF Drives
<1>5. ASSUME NEW d, NEW n, Found(dv[d], r, d, n) PROVE Found(dv[d], q, d, n)
  <2>1. PICK m \in DOMAIN r.todo : r.todo[m].dir = d /\ Shows(dv[d], r, n, m)
    BY <1>1, <1>5 DEF Found, Seen, Coming
  <2>2. PICK i \in DOMAIN dv[d] : dv[d][i] = n /\ r.todo[m].page <= i BY <2>1 DEF Shows
  <2>3. CASE m # 1
    <3>1. Shows(dv[d], q, n, m) BY <2>2, <2>3 DEF Shows
    <3> QED BY <2>1, <3>1 DEF Found, Coming
  <2>4. CASE m = 1
    <3>1. dv[d] = s /\ i \in 1..Len(s) /\ s[i] = n /\ r.todo[1].page <= i BY <1>4, <2>1, <2>2, <2>4
    <3>2. r.todo[1].page <= Len(s) /\ Len(s) \in Nat BY <1>3, <1>4, <3>1
    <3>3. q.entries = {s[r.todo[1].page]} BY <3>2
    <3>4. CASE r.todo[1].page = i
      <4>1. Seen(q, d, n) BY <1>1, <2>1, <2>4, <3>1, <3>3, <3>4 DEF Seen
      <4> QED BY <4>1 DEF Found
    <3>5. CASE r.todo[1].page # i
      <4>1. r.todo[1].page < i /\ q.more BY <1>3, <3>1, <3>2, <3>5
      <4>2. q.entries # {} BY <3>3
      <4>3. Shows(dv[d], q, n, 1) BY <2>2, <2>4, <4>1, <4>2 DEF Shows
      <4> QED BY <2>1, <2>4, <4>3 DEF Found, Coming
    <3> QED BY <3>4, <3>5
  <2> QED BY <2>3, <2>4
<1>6. ASSUME NEW p \in st PROVE Covered(dv, rw[p], q, p)
  BY <1>2, <1>5, Zenon DEF Covered
<1> QED BY <1>1, <1>2, <1>6 DEF WalkAt

(* A page is marked, and the walk goes on. *)
LEMMA TailIs ==
  ASSUME NEW w \in Seq(Request), w # <<>>
  PROVE  /\ Len(Tail(w)) = Len(w) - 1 /\ Tail(w) \in Seq(Request)
         /\ \A m \in 2..Len(w) : Tail(w)[m - 1] = w[m]
<1>1. Len(w) \in Nat \ {0} /\ Len(Tail(w)) = Len(w) - 1 /\ Tail(w) \in Seq(Request) OBVIOUS
<1> QED BY <1>1

LEMMA NextPageIs ==
  ASSUME NEW w \in Seq(Request), w # <<>>
  PROVE  /\ Len(NextPage(w)) = Len(w) /\ NextPage(w) \in Seq(Request)
         /\ \A m \in 2..Len(w) : NextPage(w)[m] = w[m]
         /\ NextPage(w)[1].dir = w[1].dir /\ NextPage(w)[1].op = w[1].op
         /\ \A i \in Nat : w[1].page < i => NextPage(w)[1].page <= i
<1> DEFINE h == Head(w)
           m == IF h.page < MaxPage THEN h.page + 1 ELSE MaxPage
           q == [h EXCEPT !.page = m]
<1>1. h \in Request /\ h = w[1] /\ Len(w) \in Nat \ {0} /\ Len(Tail(w)) = Len(w) - 1 /\ Tail(w) \in Seq(Request)
      /\ \A k \in 2..Len(w) : Tail(w)[k - 1] = w[k]
  OBVIOUS
<1>2. h.page \in Nat /\ MaxPage \in Nat BY <1>1, NetdiskAssumption DEF Request, NetdiskAssumption
<1>3. m \in Nat /\ \A i \in Nat : h.page < i => m <= i BY <1>2
<1>4. NextPage(w) = <<q>> \o Tail(w) BY Zenon DEF NextPage
<1> HIDE DEF h, m
<1>5. q \in Request /\ q.page = m /\ q.dir = h.dir /\ q.op = h.op BY <1>1, <1>3 DEF Request
<1> HIDE DEF q
<1>6. (<<q>> \o Tail(w))[1] = q /\ Len(<<q>> \o Tail(w)) = Len(w) /\ <<q>> \o Tail(w) \in Seq(Request)
  BY <1>1, <1>5
<1>7. ASSUME NEW k \in 2..Len(w) PROVE (<<q>> \o Tail(w))[k] = w[k]
  <2>1. k - 1 \in 1..Len(Tail(w)) /\ Tail(w)[k - 1] = w[k] BY <1>1
  <2>2. (<<q>> \o Tail(w))[k] = Tail(w)[k - 1] BY <1>1, <2>1
  <2> QED BY <2>1, <2>2
<1> QED BY <1>1, <1>3, <1>4, <1>5, <1>6, <1>7

Grown(r) == r.todo \o Subdirs(r)
AddedOK(r, w) ==
  /\ w \in Seq(Request) /\ w # <<>> /\ Len(r.todo) \in Nat \ {0} /\ Len(w) \in Nat \ {0}
  /\ Len(r.todo) <= Len(w) /\ \A m \in 1..Len(r.todo) : w[m] = r.todo[m]
  /\ \A m \in 1..Len(w) : m \in 1..Len(r.todo) \/ w[m] = List(Sub)
  /\ Sub \in r.entries => Len(w) = Len(r.todo) + 1 /\ w[Len(w)] = List(Sub)
LEMMA SubdirsAdded ==
  ASSUME NEW r, r.todo \in Seq(Request), r.todo # <<>>, NEW w, w = Grown(r)
  PROVE  AddedOK(r, w)
<1> DEFINE u == r.todo
           v == List(Sub)
<1>1. v \in Request BY DEF List, Ask, Request, Dir
<1>2. u \in Seq(Request) /\ u # <<>> OBVIOUS
<1>3. Subdirs(r) = IF Sub \in r.entries THEN <<v>> ELSE <<>> BY Zenon DEF Subdirs
<1> HIDE DEF u, v
<1>4. CASE Sub \in r.entries
  <2>1. w = u \o <<v>> BY <1>3, <1>4 DEF u, Grown
  <2>2. /\ w \in Seq(Request) /\ Len(w) = Len(u) + 1 /\ w[Len(w)] = v
        /\ \A m \in 1..Len(u) : w[m] = u[m]
    BY <1>1, <1>2, <2>1
  <2>3. Len(u) \in Nat \ {0} BY <1>2
  <2>4. \A m \in 1..Len(w) : m \in 1..Len(u) \/ m = Len(w) BY <2>2, <2>3
  <2> QED BY <2>2, <2>3, <2>4 DEF u, v, AddedOK
<1>5. CASE Sub \notin r.entries
  <2>1. w = u \o <<>> BY <1>3, <1>5 DEF u, Grown
  <2>2. w = u BY <1>2, <2>1
  <2>3. Len(u) \in Nat \ {0} BY <1>2
  <2> QED BY <1>2, <1>5, <2>2, <2>3 DEF u, AddedOK
<1> QED BY <1>4, <1>5

(* The requests left: those after the first, and the next page if there is one. *)
LeftOK(w, t) ==
  /\ \A m \in 2..Len(w) : \E k \in DOMAIN t : t[k] = w[m]
  /\ \A k \in DOMAIN t : \E m \in 1..Len(w) : t[k].op = w[m].op
LEMMA LeftOver ==
  ASSUME NEW w \in Seq(Request), w # <<>>, NEW t, t = NextPage(w) \/ t = Tail(w)
  PROVE  LeftOK(w, t)
<1>0. Len(w) \in Nat \ {0} OBVIOUS
<1>1. CASE t = NextPage(w)
  <2>1. Len(t) = Len(w) /\ t \in Seq(Request) /\ t[1].op = w[1].op /\ \A m \in 2..Len(w) : t[m] = w[m]
    BY <1>1, NextPageIs
  <2>2. DOMAIN t = 1..Len(w) BY <2>1
  <2>3. ASSUME NEW m \in 2..Len(w) PROVE m \in DOMAIN t BY <2>2, <1>0
  <2>4. ASSUME NEW k \in DOMAIN t PROVE k \in 1..Len(w) /\ t[k].op = w[k].op
    <3>1. k = 1 \/ k \in 2..Len(w) BY <2>2, <1>0
    <3> QED BY <2>1, <2>2, <3>1
  <2> QED BY <2>1, <2>3, <2>4 DEF LeftOK
<1>2. CASE t = Tail(w)
  <2>1. Len(t) = Len(w) - 1 /\ t \in Seq(Request) /\ \A m \in 2..Len(w) : t[m - 1] = w[m] BY <1>2, TailIs
  <2>2. DOMAIN t = 1..(Len(w) - 1) BY <2>1
  <2>3. ASSUME NEW m \in 2..Len(w) PROVE m - 1 \in DOMAIN t BY <2>2, <1>0
  <2>4. ASSUME NEW k \in DOMAIN t PROVE k + 1 \in 2..Len(w) /\ k + 1 \in 1..Len(w) /\ (k + 1) - 1 = k BY <2>2, <1>0
  <2>5. ASSUME NEW k \in DOMAIN t PROVE k + 1 \in 1..Len(w) /\ t[k].op = w[k + 1].op
    <3>1. t[(k + 1) - 1] = w[k + 1] BY <2>1, <2>4
    <3> QED BY <2>4, <3>1
  <2> QED BY <2>1, <2>3, <2>5 DEF LeftOK
<1> QED BY <1>1, <1>2

LEMMA MarkedWalk ==
  ASSUME NEW pl, pl.kind = "index", NEW r, NEW q, NEW dv \in Drives, NEW rw, NEW rx, NEW st,
         r.todo \in Seq(Request), r.todo # <<>>, r.at = "mark", WalkAt(pl, r, dv, rw, st),
         PresentAt(dv, r, st), \A p \in Path : Better(rw[p], rx[p]),
         \A n \in r.entries \cap File : rw[<<r.todo[1].dir, n>>].known => rx[<<r.todo[1].dir, n>>].indexed,
         NEW w, w = Grown(r),
         \/ Continues(r) /\ q.todo = NextPage(w) /\ q.at = "next"
         \/ ~Continues(r) /\ q.todo = Tail(w) /\ q.at = IF Len(w) = 1 THEN "done" ELSE "next"
  PROVE  WalkAt(pl, q, dv, rx, st)
<1> DEFINE u == r.todo
<1>1. /\ w \in Seq(Request) /\ w # <<>> /\ Len(u) \in Nat \ {0} /\ Len(w) \in Nat \ {0}
      /\ Len(u) <= Len(w) /\ \A m \in 1..Len(u) : w[m] = u[m]
      /\ \A m \in 1..Len(w) : m \in 1..Len(u) \/ w[m] = List(Sub)
      /\ Sub \in r.entries => Len(w) = Len(u) + 1 /\ w[Len(w)] = List(Sub)
  <2>1. r.todo \in Seq(Request) /\ r.todo # <<>> /\ w = Grown(r) OBVIOUS
  <2>2. AddedOK(r, w) BY ONLY <2>1, SubdirsAdded, Zenon
  <2> QED BY ONLY <2>2, Zenon DEF AddedOK, u
<1>2. /\ \A p \in st : Covered(dv, rw[p], r, p)
      /\ \A m \in DOMAIN u : u[m].op = "list"
      /\ \A n \in r.entries \cap File : rw[<<u[1].dir, n>>].known
  BY DEF WalkAt, Off
<1>3. ~Listed(q) /\ Listed(r) /\ q.at # "mark" /\ q.at \notin Off BY DEF Listed, Off
<1>4. DOMAIN u = 1..Len(u) /\ u \in Seq(Request) OBVIOUS
<1> HIDE DEF u
<1>5. \A m \in 1..Len(w) : w[m].op = "list"
  <2>1. List(Sub).op = "list" BY DEF List, Ask
  <2> QED BY <1>1, <1>2, <1>4, <2>1
<1>6. /\ \A m \in 2..Len(w) : \E k \in DOMAIN q.todo : q.todo[k] = w[m]
      /\ \A k \in DOMAIN q.todo : \E m \in 1..Len(w) : q.todo[k].op = w[m].op
  <2>1. w \in Seq(Request) /\ w # <<>> /\ (q.todo = NextPage(w) \/ q.todo = Tail(w)) BY <1>1
  <2>2. LeftOK(w, q.todo) BY ONLY <2>1, LeftOver, Zenon
  <2> QED BY ONLY <2>2 DEF LeftOK
<1>7. ASSUME NEW m \in 2..Len(w), NEW n, NEW d, w[m].dir = d, NEW i \in DOMAIN dv[d], dv[d][i] = n,
             w[m].page <= i
      PROVE  Found(dv[d], q, d, n)
  <2>1. PICK k \in DOMAIN q.todo : q.todo[k] = w[m] BY <1>6
  <2>2. q.todo[k].dir = d /\ q.todo[k].page <= i BY <1>7, <2>1
  <2>3. Shows(dv[d], q, n, k) BY <1>3, <1>7, <2>2 DEF Shows
  <2> QED BY <2>1, <2>2, <2>3 DEF Found, Coming
<1>8. ASSUME NEW d \in Dir, NEW n, Coming(dv[d], r, d, n) PROVE Found(dv[d], q, d, n)
  <2>1. PICK m \in DOMAIN u : u[m].dir = d /\ Shows(dv[d], r, n, m) BY <1>8 DEF Coming, u
  <2>2. PICK i \in DOMAIN dv[d] : /\ dv[d][i] = n /\ u[m].page <= i
                                  /\ m = 1 => r.more /\ r.entries # {} /\ u[1].page < i
    BY <1>3, <2>1 DEF Shows, u
  <2>3. CASE m = 1
    <3>1. q.todo = NextPage(w) BY <2>2, <2>3 DEF Continues
    <3>2. w[1] = u[1] BY <1>1
    <3>3. i \in Nat
      <4>1. dv[d] \in Seq(Name) BY DEF Drives
      <4> QED BY <4>1
    <3>4. q.todo[1].dir = d /\ q.todo[1].page <= i BY <1>1, <2>1, <2>2, <2>3, <3>1, <3>2, <3>3, NextPageIs
    <3>5. 1 \in DOMAIN q.todo
      <4>1. Len(q.todo) = Len(w) /\ q.todo \in Seq(Request) BY <1>1, <3>1, NextPageIs
      <4> QED BY <1>1, <4>1
    <3>6. Shows(dv[d], q, n, 1) BY <1>3, <2>2, <3>4 DEF Shows
    <3> QED BY <3>4, <3>5, <3>6 DEF Found, Coming
  <2>4. CASE m # 1
    <3>1. m \in 2..Len(w) /\ w[m] = u[m] BY <1>1, <1>4, <2>4
    <3> QED BY <1>7, <2>1, <2>2, <3>1
  <2> QED BY <2>3, <2>4
<1>9. ASSUME NEW p \in st PROVE Covered(dv, rx[p], q, p)
  <2>0. p \in Path /\ p[1] \in Dir /\ p[2] \in File /\ p = <<p[1], p[2]>> BY DEF PresentAt, Path
  <2>1. CASE rw[p].indexed BY <2>0, <2>1 DEF Covered, Better
  <2>2. CASE Seen(r, p[1], p[2])
    <3>1. u[1].dir = p[1] /\ p[2] \in r.entries \cap File BY <2>0, <2>2 DEF Seen, u
    <3>2. rw[<<u[1].dir, p[2]>>].known BY <1>2, <3>1
    <3>3. rx[<<u[1].dir, p[2]>>].indexed BY <3>1, <3>2 DEF u
    <3>4. rx[p].indexed BY <2>0, <3>1, <3>3
    <3> QED BY <3>4 DEF Covered
  <2>3. CASE Coming(dv[p[1]], r, p[1], p[2]) BY <1>8, <2>0, <2>3 DEF Covered
  <2>4. CASE p[1] = Sub /\ Seen(r, "root", Sub)
    <3>1. Sub \in r.entries BY <2>4 DEF Seen
    <3>2. PICK i \in DOMAIN dv[Sub] : dv[Sub][i] = p[2] BY <2>4 DEF PresentAt
    <3>3. Len(w) \in 2..Len(w) /\ w[Len(w)] = List(Sub) BY <1>1, <3>1
    <3>4. List(Sub).dir = Sub /\ List(Sub).page = 1 BY DEF List, Ask
    <3>5. 1 <= i
      <4>1. dv[Sub] \in Seq(Name) BY DEF Drives, Dir
      <4> QED BY <4>1
    <3>6. Found(dv[Sub], q, Sub, p[2]) BY <1>7, <3>2, <3>3, <3>4, <3>5
    <3> QED BY <2>4, <3>6 DEF Covered
  <2>5. CASE p[1] = Sub /\ Coming(dv["root"], r, "root", Sub)
    <3>1. "root" \in Dir BY DEF Dir
    <3>2. Found(dv["root"], q, "root", Sub) BY <1>8, <2>5, <3>1
    <3> QED BY <2>5, <3>2 DEF Covered
  <2> QED BY <1>2, <2>1, <2>2, <2>3, <2>4, <2>5, Zenon DEF Covered, Found
<1>10. \A m \in DOMAIN q.todo : q.todo[m].op = "list" BY <1>5, <1>6
<1>11. q.at = "done" => q.todo = <<>>
  <2> SUFFICES ASSUME q.at = "done" PROVE q.todo = <<>> OBVIOUS
  <2>1. q.todo = Tail(w) /\ Len(w) = 1 OBVIOUS
  <2>2. Tail(w) \in Seq(Request) /\ Len(Tail(w)) = 0 BY <1>1, <2>1, TailIs
  <2> QED BY <2>1, <2>2
<1> QED BY <1>3, <1>9, <1>10, <1>11 DEF WalkAt

-----------------------------------------------------------------------------
(* The steps. *)

(* A walk that is done has nothing left to find, whatever becomes of the drive. *)
LEMMA DoneWalk ==
  ASSUME NEW pl, NEW r, r.at = "done", NEW dv, NEW dw, NEW rw, NEW rx, \A p \in Path : Better(rw[p], rx[p]),
         NEW st, st \subseteq Dir \X File, WalkAt(pl, r, dv, rw, st)
  PROVE  WalkAt(pl, r, dw, rx, st)
<1> SUFFICES ASSUME pl.kind = "index" PROVE WalkAt(pl, r, dw, rx, st) BY DEF WalkAt
<1>1. r.todo = <<>> /\ \A p \in st : Covered(dv, rw[p], r, p) BY DEF WalkAt, Off
<1>2. ASSUME NEW s, NEW d, NEW n PROVE ~Found(s, r, d, n)
  BY <1>1 DEF Found, Seen, Listed, Coming
<1>3. ASSUME NEW p \in st PROVE rx[p].indexed
  <2>1. rw[p].indexed BY <1>1, <1>2 DEF Covered
  <2>2. p \in Path BY DEF Path
  <2> QED BY <2>1, <2>2 DEF Better
<1> QED BY <1>1, <1>3 DEF WalkAt, Covered

LEMMA JobFacts ==
  ASSUME NetdiskInv, WalkInv, NEW k \in Job
  PROVE  /\ Shaped(job[k]) /\ CallOK(job[k]) /\ job[k].todo \in Seq(Request)
         /\ job[k].at \notin Ended => job[k].todo # <<>>
         /\ WalkAt(plan[k], job[k], drive, rows, steady[k]) /\ PresentAt(drive, job[k], steady[k])
         /\ drive \in Drives
BY DEF NetdiskInv, JobsOK, JobOK, CallOK, WalkInv

(* Steps that leave the drive alone. *)
LEMMA QuietWalk ==
  ASSUME NetdiskInv, WalkInv, NEW k \in Job, NEW q, job[k].at = "done" => q.at = "done",
         plan[k].kind # "index" \/ q.at \in Off \/ Alike(job[k], q),
         NEW rx, \A p \in Path : Better(rows[p], rx[p]),
         q.at = "mark" => job[k].at = "mark" \/ \A n \in q.entries \cap File : rx[<<q.todo[1].dir, n>>].known
  PROVE  WalkAt(plan[k], q, drive, rx, steady[k]) /\ PresentAt(drive, q, steady[k])
<1>1. /\ Shaped(job[k]) /\ CallOK(job[k]) /\ job[k].todo \in Seq(Request)
      /\ job[k].at \notin Ended => job[k].todo # <<>>
      /\ WalkAt(plan[k], job[k], drive, rows, steady[k]) /\ PresentAt(drive, job[k], steady[k])
      /\ drive \in Drives
  BY JobFacts
<1>2. PresentAt(drive, q, steady[k]) BY <1>1 DEF PresentAt
<1>3. CASE plan[k].kind # "index" BY <1>2, <1>3 DEF WalkAt
<1>4. CASE q.at \in Off \/ Alike(job[k], q)
  <2> DEFINE r == job[k]
             st == steady[k]
             pl == plan[k]
  <2>1. st \subseteq Dir \X File BY <1>1 DEF PresentAt
  <2>2. \A p \in st : Grows(drive[p[1]], drive[p[1]]) /\ (p[1] = Sub => Grows(drive["root"], drive["root"]))
    <3>1. \A d \in Dir : drive[d] \in Seq(Name) BY <1>1 DEF Drives
    <3> QED BY <2>1, <3>1, GrowsSame DEF Dir
  <2>3. WalkAt(pl, q, drive, rx, st)
    <3> HIDE DEF r, st, pl
    <3> SUFFICES WalkAt(pl, q, drive, rx, st) OBVIOUS
    <3>1. /\ q.at \in Off \/ Alike(r, q)
          /\ r.todo \in Seq(Request) /\ (r.at \notin Ended => r.todo # <<>>)
          /\ WalkAt(pl, r, drive, rows, st) /\ drive \in Drives
          /\ q.at = "mark" => r.at = "mark" \/ \A n \in q.entries \cap File : rx[<<q.todo[1].dir, n>>].known
      BY <1>1, <1>4 DEF r, st, pl
    <3> QED BY <2>1, <2>2, <3>1, WalkKept
  <2> QED BY <1>2, <2>3
<1> QED BY <1>3, <1>4

LEMMA WalkPut ==
  ASSUME NetdiskInv, WalkInv, NEW j \in Job, NEW q, Puts(j, q), UNCHANGED <<plan, drive, steady>>,
         \A p \in Path : Better(rows[p], rows'[p]), job[j].at # "done",
         \/ WalkAt(plan[j], q, drive, rows', steady[j])
         \/ /\ plan[j].kind # "index" \/ q.at \in Off \/ Alike(job[j], q)
            /\ q.at = "mark" => job[j].at = "mark" \/ \A n \in q.entries \cap File : rows'[<<q.todo[1].dir, n>>].known
  PROVE  WalkInv'
<1>1. \A k \in Job : job'[k] = IF k = j THEN q ELSE job[k] BY DEF Puts, NetdiskInv, JobsOK
<1>2. ASSUME NEW k \in Job
      PROVE  WalkAt(plan[k], job'[k], drive, rows', steady[k]) /\ PresentAt(drive, job'[k], steady[k])
  <2>1. CASE k # j
    <3>1. job'[k] = job[k] /\ Alike(job[k], job[k]) BY <1>1, <2>1 DEF Alike
    <3> QED BY <3>1, QuietWalk
  <2>2. CASE k = j /\ WalkAt(plan[j], q, drive, rows', steady[j])
    <3>1. job'[k] = q BY <1>1, <2>2
    <3>2. PresentAt(drive, job[j], steady[j]) BY JobFacts
    <3>3. PresentAt(drive, q, steady[j]) BY <3>2 DEF PresentAt
    <3> QED BY <2>2, <3>1, <3>3
  <2>3. CASE k = j /\ ~WalkAt(plan[j], q, drive, rows', steady[j])
    <3>1. job'[k] = q BY <1>1, <2>3
    <3> QED BY <2>3, <3>1, QuietWalk
  <2> QED BY <2>1, <2>2, <2>3
<1> QED BY <1>2 DEF WalkInv

LEMMA Same == \A p \in Path : Better(rows[p], rows[p])
BY DEF Better

LEMMA AttemptWalk ==
  ASSUME NetdiskInv, WalkInv, NEW j \in Job, NEW stored, NEW again, Attempt(j, stored, again),
         ~Listed(job[j]), job[j].at \notin Off, job[j].at # "done", UNCHANGED <<plan, drive, steady, rows>>
  PROVE  WalkInv'
<1> DEFINE r == job[j]
<1>0. Shaped(r) BY JobFacts
<1>1. \A p \in Path : Better(rows[p], rows'[p]) BY Same
<1>2. ASSUME NEW q, Puts(j, q), q.todo = r.todo, q.at \in {"sent", "login"} PROVE WalkInv'
  <2>1. Alike(r, q) /\ q.at # "mark" BY <1>2 DEF Alike, Listed
  <2> QED BY <1>1, <1>2, <2>1, WalkPut
<1> HIDE DEF r
<1>3. CASE stored # 0
  <2> DEFINE good == stored \in accepted
  <2>1. Puts(j, [r EXCEPT !.at = "sent", !.bearer = stored, !.again = again, !.good = good])
    BY <1>3, Zenon DEF Attempt, r
  <2> HIDE DEF good
  <2> DEFINE w1 == [r EXCEPT !.at = "sent"]
             w2 == [w1 EXCEPT !.bearer = stored]
             w3 == [w2 EXCEPT !.again = again]
             w4 == [w3 EXCEPT !.good = good]
  <2>2. Shaped(w1) /\ w1.todo = r.todo /\ w1.at = "sent" BY <1>0 DEF Shaped
  <2> HIDE DEF w1
  <2>3. Shaped(w2) /\ w2.todo = r.todo /\ w2.at = "sent" BY <2>2 DEF Shaped
  <2> HIDE DEF w2
  <2>4. Shaped(w3) /\ w3.todo = r.todo /\ w3.at = "sent" BY <2>3 DEF Shaped
  <2> HIDE DEF w3
  <2>5. w4.todo = r.todo /\ w4.at = "sent" BY <2>4 DEF Shaped
  <2> HIDE DEF w4
  <2>6. [r EXCEPT !.at = "sent", !.bearer = stored, !.again = again, !.good = good] = w4
    BY Zenon DEF w4, w3, w2, w1
  <2>7. Puts(j, w4) BY <2>1, <2>6, Zenon
  <2> QED BY <1>2, <2>5, <2>7
<1>4. CASE stored = 0 /\ creds
  <2>1. Puts(j, [r EXCEPT !.at = "login", !.again = again]) BY <1>4, Zenon DEF Attempt, r
  <2> DEFINE w == [at |-> "login", todo |-> r.todo, again |-> again, bearer |-> r.bearer, good |-> r.good,
                   code |-> r.code, entries |-> r.entries, more |-> r.more, tries |-> r.tries]
  <2>2. [r EXCEPT !.at = "login", !.again = again] = w BY <1>0, SetAtAgain, Zenon
  <2>3. w.at = "login" /\ w.todo = r.todo OBVIOUS
  <2> HIDE DEF w
  <2>4. Puts(j, w) BY <2>1, <2>2, Zenon
  <2> QED BY <1>2, <2>3, <2>4
<1>5. CASE stored = 0 /\ ~creds
  <2>1. Puts(j, Failed(j)) BY <1>5, Zenon DEF Attempt
  <2>2. plan[j].kind # "index" \/ Failed(j).at \in Off BY FailedIsOff
  <2>3. plan[j].kind # "index" \/ Failed(j).at # "mark" BY <2>2 DEF Off
  <2>4. WalkAt(plan[j], Failed(j), drive, rows', steady[j]) \/ plan[j].kind = "index" BY DEF WalkAt
  <2> HIDE DEF r
  <2>5. \/ WalkAt(plan[j], Failed(j), drive, rows', steady[j])
        \/ /\ plan[j].kind # "index" \/ Failed(j).at \in Off \/ Alike(job[j], Failed(j))
           /\ Failed(j).at = "mark" => job[j].at = "mark"
    BY <2>2, <2>3, <2>4
  <2> QED BY <1>1, <2>1, <2>5, WalkPut
<1> QED BY <1>3, <1>4, <1>5

(* A call fails, or another call moves on: nothing to the walks. *)
LEMMA FailsWalk ==
  ASSUME NetdiskInv, WalkInv, NEW j \in Job, Puts(j, Failed(j)), job[j].at # "done",
         UNCHANGED <<plan, drive, steady>>, UNCHANGED rows
  PROVE  WalkInv'
<1>1. \A p \in Path : Better(rows[p], rows'[p]) BY Same
<1>2. WalkAt(plan[j], Failed(j), drive, rows', steady[j]) BY FailedIsOff DEF WalkAt, Off
<1> QED BY <1>1, <1>2, WalkPut

LEMMA OtherWalk ==
  ASSUME NetdiskInv, WalkInv, NEW j \in Job, NEW q, Puts(j, q), plan[j].kind # "index", job[j].at # "done",
         UNCHANGED <<plan, drive, steady>>, \A p \in Path : Better(rows[p], rows'[p])
  PROVE  WalkInv'
<1>1. WalkAt(plan[j], q, drive, rows', steady[j]) BY DEF WalkAt
<1> QED BY <1>1, WalkPut

LEMMA BeginsWalk == ASSUME NetdiskInv, WalkInv, NEW j \in Job, Begins(j) PROVE WalkInv'
<1>1. job[j].at = "next" /\ Attempt(j, token, FALSE) /\ UNCHANGED <<plan, drive, steady, rows>>
  BY DEF Begins, setup
<1>2. ~Listed(job[j]) /\ job[j].at \notin Off /\ job[j].at # "done" BY <1>1 DEF Listed, Off
<1> QED BY <1>1, <1>2, AttemptWalk

LEMMA LogsInWalk == ASSUME NetdiskInv, WalkInv, NEW j \in Job, LogsIn(j) PROVE WalkInv'
<1> DEFINE r == job[j]
<1>0. Shaped(r) BY JobFacts
<1>1. r.at = "login" /\ UNCHANGED <<plan, drive, steady, rows>> BY DEF LogsIn, setup, history
<1>2. PICK t \in 1..MaxTokens : Puts(j, [r EXCEPT !.at = "sent", !.bearer = t, !.good = TRUE])
  BY Zenon DEF LogsIn
<1> HIDE DEF r
<1> DEFINE w == [at |-> "sent", todo |-> r.todo, again |-> r.again, bearer |-> t, good |-> TRUE, code |-> r.code,
                 entries |-> r.entries, more |-> r.more, tries |-> r.tries]
<1>3. [r EXCEPT !.at = "sent", !.bearer = t, !.good = TRUE] = w BY <1>0, SetAtBearerGood, Zenon
<1>4. w.at = "sent" /\ w.todo = r.todo OBVIOUS
<1> HIDE DEF w
<1>5. Puts(j, w) BY <1>2, <1>3, Zenon
<1>6. Alike(job[j], w) /\ w.at # "mark" BY <1>1, <1>4 DEF Alike, Listed, Off, r
<1>7. \A p \in Path : Better(rows[p], rows'[p]) BY <1>1, Same
<1> QED BY <1>1, <1>5, <1>6, <1>7, WalkPut DEF r

LEMMA ReceivesWalk == ASSUME NetdiskInv, WalkInv, NEW j \in Job, Receives(j) PROVE WalkInv'
<1> DEFINE r == job[j]
           code == r.code
           op == Want(j).op
<1>0. Shaped(r) /\ CallOK(r) /\ r.todo \in Seq(Request) /\ WalkAt(plan[j], r, drive, rows, steady[j]) BY JobFacts
<1>1. r.at = "answered" /\ UNCHANGED <<plan, drive, steady, rows>> BY DEF Receives, setup, history
<1>2. \A p \in Path : Better(rows[p], rows'[p]) BY <1>1, Same
<1>3. CASE code = "401" /\ ~r.again
  <2>1. token' = 0 /\ Attempt(j, token', TRUE) BY <1>3 DEF Receives, Cleared
  <2>2. Attempt(j, 0, TRUE) BY <2>1
  <2>3. ~Listed(job[j]) /\ job[j].at \notin Off /\ job[j].at # "done" BY <1>1, <1>3 DEF Listed, Off
  <2> QED BY <1>1, <2>2, <2>3, AttemptWalk
<1>4. CASE ~(code = "401" /\ ~r.again) /\ plan[j].kind # "index"
  <2>1. \/ Puts(j, Failed(j)) \/ Puts(j, [r EXCEPT !.at = "store"])
        \/ Puts(j, [r EXCEPT !.at = "done"]) \/ Puts(j, Onward(r))
    BY <1>4 DEF Receives
  <2>2. PICK q : Puts(j, q) BY <2>1
  <2> QED BY <1>1, <1>2, <1>4, <2>2, OtherWalk
<1>5. CASE ~(code = "401" /\ ~r.again) /\ plan[j].kind = "index"
  <2>1. r.todo # <<>> BY <1>0, <1>1 DEF CallOK, Ended
  <2>2. op = "list"
    <3>1. \A m \in DOMAIN r.todo : r.todo[m].op = "list" BY <1>0, <1>1, <1>5 DEF WalkAt, Off
    <3>2. 1 \in DOMAIN r.todo /\ Head(r.todo) = r.todo[1] BY <1>0, <2>1
    <3> QED BY <3>1, <3>2 DEF Want
  <2>3. \/ Puts(j, Failed(j))
        \/ code = "ok" /\ Puts(j, [r EXCEPT !.at = "store"])
    <3> DEFINE e == IF code # "ok" /\ ~MadeAlready(op, code) /\ ~NotThere(op, code) THEN Failed(j) ELSE
                    CASE op = "list" -> [r EXCEPT !.at = "store"]
                      [] op = "link" -> [r EXCEPT !.at = "done"]
                      [] OTHER -> Onward(r)
    <3>1. Puts(j, e) BY <1>5, Zenon DEF Receives
    <3>2. ~MadeAlready(op, code) /\ ~NotThere(op, code) BY <2>2 DEF MadeAlready, NotThere
    <3> HIDE DEF r, code, op
    <3>3. e = Failed(j) \/ (code = "ok" /\ e = [r EXCEPT !.at = "store"])
      <4>1. CASE code # "ok" BY <3>2, <4>1
      <4>2. CASE code = "ok" BY <2>2, <4>2
      <4> QED BY <4>1, <4>2
    <3> HIDE DEF e
    <3> QED BY <3>1, <3>3
  <2>4. CASE Puts(j, Failed(j)) BY <1>1, <2>4, FailsWalk
  <2>5. CASE code = "ok" /\ Puts(j, [r EXCEPT !.at = "store"])
    <3> DEFINE q == [r EXCEPT !.at = "store"]
    <3>1. q.at = "store" /\ q.todo = r.todo /\ q.entries = r.entries /\ q.more = r.more BY <1>0 DEF Shaped
    <3> HIDE DEF q
    <3>2. Alike(job[j], q) /\ q.at # "mark" BY <1>1, <2>5, <3>1 DEF Alike, Listed, Off
    <3>3. Puts(j, q) BY <2>5 DEF q
    <3> QED BY <1>1, <1>2, <3>2, <3>3, WalkPut
  <2> QED BY <2>3, <2>4, <2>5
<1> QED BY <1>3, <1>4, <1>5

LEMMA RowShape ==
  ASSUME NetdiskInv, NEW p \in Path
  PROVE  rows[p] \in {NoRow} \cup [known : {TRUE}, indexed : BOOLEAN]
BY DEF NetdiskInv, WorldOK

LEMMA RegistersWalk == ASSUME NetdiskInv, WalkInv, NEW j \in Job, Registers(j) PROVE WalkInv'
<1> DEFINE r == job[j]
           to == IF plan[j].kind = "index" THEN "mark" ELSE "done"
           q == [r EXCEPT !.at = to]
<1>0. Shaped(r) /\ r.todo \in Seq(Request) /\ (r.at \notin Ended => r.todo # <<>>) BY JobFacts
<1>1. /\ r.at = "store" /\ UNCHANGED <<plan, drive, steady>> /\ Puts(j, q)
      /\ rows' = [p \in Path |-> IF p[1] = Want(j).dir /\ p[2] \in r.entries THEN Merged(rows[p]) ELSE rows[p]]
  BY DEF Registers, setup, history
<1>2. ASSUME NEW p \in Path PROVE Better(rows[p], rows'[p])
  <2>1. Better(rows[p], Merged(rows[p]))
    <3>1. CASE rows[p].known BY <3>1 DEF Better, Merged
    <3>2. CASE ~rows[p].known
      <4>1. rows[p] = NoRow BY <3>2, RowShape
      <4>2. ~rows[p].indexed BY <4>1 DEF NoRow
      <4> QED BY <3>2, <4>2 DEF Better
    <3> QED BY <3>1, <3>2
  <2>2. Better(rows[p], rows[p]) BY DEF Better
  <2> HIDE DEF r
  <2>3. rows'[p] = Merged(rows[p]) \/ rows'[p] = rows[p] BY <1>1
  <2> QED BY <2>1, <2>2, <2>3
<1>3. r.at # "done" BY <1>1
<1>4. q.at = to /\ q.todo = r.todo /\ q.entries = r.entries /\ q.more = r.more BY <1>0 DEF Shaped
<1>5. Want(j) = r.todo[1] /\ r.todo[1] \in Request BY <1>0, <1>1 DEF Want, Ended
<1>6. \A n \in q.entries \cap File : rows'[<<q.todo[1].dir, n>>].known
  <2> SUFFICES ASSUME NEW n \in q.entries \cap File PROVE rows'[<<q.todo[1].dir, n>>].known OBVIOUS
  <2> DEFINE p == <<r.todo[1].dir, n>>
  <2>1. p \in Path /\ p[1] = Want(j).dir /\ p[2] \in r.entries BY <1>4, <1>5 DEF Path, Request
  <2>2. rows'[p] = Merged(rows[p]) BY <1>1, <2>1
  <2>3. Merged(rows[p]).known BY DEF Merged, Registered
  <2> QED BY <1>4, <2>2, <2>3
<1> HIDE DEF q
<1>7. CASE plan[j].kind = "index"
  <2>1. q.at = "mark" BY <1>4, <1>7
  <2>2. Alike(job[j], q) BY <1>1, <1>4, <2>1 DEF Alike, Listed, Off
  <2> QED BY <1>1, <1>2, <1>3, <1>6, <2>2, WalkPut
<1>8. CASE plan[j].kind # "index" BY <1>1, <1>2, <1>3, <1>8, OtherWalk
<1> QED BY <1>7, <1>8

LEMMA MarksWalk == ASSUME NetdiskInv, WalkInv, NEW j \in Job, Marks(j) PROVE WalkInv'
<1> DEFINE old == job[j]
           w == old.todo \o Subdirs(old)
           r == [old EXCEPT !.todo = w]
<1>0. /\ Shaped(old) /\ CallOK(old) /\ old.todo \in Seq(Request) /\ (old.at \notin Ended => old.todo # <<>>)
      /\ WalkAt(plan[j], old, drive, rows, steady[j]) /\ PresentAt(drive, old, steady[j]) /\ drive \in Drives
  BY JobFacts
<1>1. /\ old.at = "mark" /\ UNCHANGED <<plan, drive, steady>>
      /\ rows' = [p \in Path |-> IF p[1] = Want(j).dir /\ p[2] \in old.entries \ {Sub} /\ rows[p].known
                                 THEN [rows[p] EXCEPT !.indexed = TRUE] ELSE rows[p]]
      /\ Puts(j, IF Continues(r) THEN [Over(r) EXCEPT !.todo = NextPage(@), !.at = "next"] ELSE Onward(r))
  BY Zenon DEF Marks, setup, history
<1>2. ASSUME NEW p \in Path
      PROVE  /\ Better(rows[p], rows'[p])
             /\ p[1] = Want(j).dir /\ p[2] \in old.entries \ {Sub} /\ rows[p].known => rows'[p].indexed
  <2>1. CASE rows[p].known
    <3>1. rows[p] \in [known : {TRUE}, indexed : BOOLEAN]
      <4>1. ~NoRow.known BY DEF NoRow
      <4>2. rows[p] # NoRow BY <2>1, <4>1, Zenon
      <4> QED BY <4>2, RowShape
    <3> DEFINE marked == [rows[p] EXCEPT !.indexed = TRUE]
    <3>2. marked.known = TRUE /\ marked.indexed = TRUE BY <3>1
    <3> HIDE DEF marked, old
    <3>3. rows'[p] = IF p[1] = Want(j).dir /\ p[2] \in old.entries \ {Sub} THEN marked ELSE rows[p]
      BY <1>1, <2>1 DEF marked
    <3> QED BY <3>2, <3>3 DEF Better
  <2>2. CASE ~rows[p].known
    <3>1. rows'[p] = rows[p] BY <1>1, <2>2
    <3> QED BY <2>2, <3>1 DEF Better
  <2> QED BY <2>1, <2>2
<1>3. old.todo # <<>> /\ old.at # "done" BY <1>0, <1>1 DEF Ended
<1>4. Want(j) = old.todo[1] /\ old.todo[1] \in Request BY <1>0, <1>3 DEF Want
<1>5. CASE plan[j].kind # "index"
  <2>1. PICK q : Puts(j, q) BY <1>1
  <2> QED BY <1>1, <1>2, <1>3, <1>5, <2>1, OtherWalk
<1>6. CASE plan[j].kind = "index"
  <2>0. w = Grown(old) BY Zenon DEF Grown
  <2>00. AddedOK(old, w) BY ONLY <1>0, <1>3, <2>0, SubdirsAdded, Zenon
  <2> DEFINE v == [at |-> old.at, todo |-> w, again |-> old.again, bearer |-> old.bearer, good |-> old.good,
                   code |-> old.code, entries |-> old.entries, more |-> old.more, tries |-> old.tries]
  <2>1. r = v BY <1>0, SetTodo, Zenon
  <2> HIDE DEF w
  <2>2. Shaped(v) /\ CallOK(v) /\ v.todo = w /\ v.more = old.more /\ v.entries = old.entries
    <3>1. w \in Seq(Request) /\ w # <<>> BY <2>00 DEF AddedOK
    <3> HIDE DEF old
    <3> QED BY <1>0, <3>1 DEF Shaped, CallOK
  <2> HIDE DEF v
  <2>3. Shaped(r) /\ CallOK(r) /\ r.todo = w /\ (Continues(r) <=> Continues(old))
    BY <2>1, <2>2 DEF Continues
  <2> DEFINE q == IF Continues(r) THEN [Over(r) EXCEPT !.todo = NextPage(@), !.at = "next"] ELSE Onward(r)
  <2>4. \/ Continues(old) /\ q.todo = NextPage(w) /\ q.at = "next"
        \/ ~Continues(old) /\ q.todo = Tail(w) /\ q.at = IF Len(w) = 1 THEN "done" ELSE "next"
    <3> HIDE DEF r, old
    <3>1. CASE Continues(r)
      <4> DEFINE o == Over(r)
                 u == [at |-> "next", todo |-> NextPage(o.todo), again |-> o.again, bearer |-> o.bearer,
                       good |-> o.good, code |-> o.code, entries |-> o.entries, more |-> o.more,
                       tries |-> o.tries]
      <4>1. Shaped(o) /\ o.todo = w BY <2>3, OverKeeps
      <4> HIDE DEF o
      <4>2. [o EXCEPT !.todo = NextPage(@), !.at = "next"] = u BY <4>1, SetTodoAt, Zenon
      <4>3. u.todo = NextPage(w) /\ u.at = "next" BY <4>1
      <4> HIDE DEF u
      <4>4. q = u BY <3>1, <4>2 DEF o
      <4> QED BY <2>3, <3>1, <4>3, <4>4
    <3>2. CASE ~Continues(r)
      <4> DEFINE u == [at |-> IF Len(r.todo) = 1 THEN "done" ELSE "next", todo |-> Tail(r.todo),
                       again |-> FALSE, bearer |-> 0, good |-> FALSE, code |-> "none", entries |-> {},
                       more |-> FALSE, tries |-> r.tries]
      <4>1. Onward(r) = u BY <2>3, OnwardIs, Zenon
      <4>2. u.todo = Tail(w) /\ u.at = IF Len(w) = 1 THEN "done" ELSE "next" BY <2>3
      <4> HIDE DEF u
      <4>3. q = u BY <3>2, <4>1
      <4> QED BY <2>3, <3>2, <4>2, <4>3
    <3> QED BY <3>1, <3>2
  <2>5. Puts(j, q) BY <1>1, Zenon
  <2> HIDE DEF q, r
  <2>6. \A n \in old.entries \cap File : rows[<<old.todo[1].dir, n>>].known => rows'[<<old.todo[1].dir, n>>].indexed
    <3> SUFFICES ASSUME NEW n \in old.entries \cap File, rows[<<old.todo[1].dir, n>>].known
                 PROVE  rows'[<<old.todo[1].dir, n>>].indexed
      OBVIOUS
    <3> DEFINE p == <<old.todo[1].dir, n>>
    <3>1. p \in Path /\ p[1] = Want(j).dir /\ p[2] \in old.entries /\ p[2] # Sub
      BY <1>4, NetdiskAssumption DEF Path, Request, NetdiskAssumption
    <3> HIDE DEF old
    <3> QED BY <1>2, <3>1
  <2> DEFINE st == steady[j]
             pl == plan[j]
             rx == rows'
  <2>7. WalkAt(pl, q, drive, rx, st)
    <3>1. /\ pl.kind = "index" /\ drive \in Drives /\ old.todo \in Seq(Request) /\ old.todo # <<>> /\ old.at = "mark"
          /\ WalkAt(pl, old, drive, rows, st) /\ PresentAt(drive, old, st) /\ \A p \in Path : Better(rows[p], rx[p])
          /\ \A n \in old.entries \cap File : rows[<<old.todo[1].dir, n>>].known => rx[<<old.todo[1].dir, n>>].indexed
      BY <1>0, <1>1, <1>2, <1>3, <1>6, <2>6
    <3> HIDE DEF pl, st, rx, old
    <3> QED BY <2>0, <2>4, <3>1, MarkedWalk
  <2>8. WalkAt(plan[j], q, drive, rows', steady[j]) BY <2>7
  <2> QED BY <1>1, <1>2, <1>3, <2>5, <2>8, WalkPut
<1> QED BY <1>5, <1>6

(* A walk that starts has every file of its directory, or the directory of it, ahead. *)
LEMMA StartWalk ==
  ASSUME drive \in Drives, NEW pl, NEW d \in Dir, pl = Index(d), NEW q, q.todo = pl.todo, q.at = "next", NEW rw
  PROVE  WalkAt(pl, q, drive, rw, Under(pl))
<1> DEFINE v == List(d)
<1>1. pl.todo = <<v>> BY DEF Index, Plan
<1>2. v.dir = d /\ v.page = 1 /\ v.op = "list" BY DEF List, Ask
<1> HIDE DEF v
<1>3. q.todo = <<v>> /\ q.todo[1] = v /\ DOMAIN q.todo = {1} /\ Head(pl.todo) = v BY <1>1
<1>4. ~Listed(q) BY DEF Listed
<1>5. ASSUME NEW n, Has(d, n) PROVE Found(drive[d], q, d, n)
  <2>1. PICK i \in DOMAIN drive[d] : drive[d][i] = n BY <1>5 DEF Has, Range
  <2>2. drive[d] \in Seq(Name) BY DEF Drives
  <2>3. 1 <= i BY <2>1, <2>2
  <2>4. Shows(drive[d], q, n, 1) BY <1>2, <1>3, <1>4, <2>1, <2>3 DEF Shows
  <2> QED BY <1>2, <1>3, <2>4 DEF Found, Coming
<1>6. ASSUME NEW p \in Under(pl) PROVE Covered(drive, rw[p], q, p)
  <2>1. p \in Dir \X File /\ Exists(p[1]) /\ Has(p[1], p[2]) /\ d \in {"root", p[1]}
    BY <1>2, <1>3 DEF Under, Files
  <2>2. CASE p[1] = d BY <1>5, <2>1, <2>2 DEF Covered
  <2>3. CASE p[1] # d
    <3>1. p[1] = Sub /\ d = "root" /\ Has("root", Sub) BY <2>1, <2>3 DEF Dir, Exists
    <3> QED BY <1>5, <3>1 DEF Covered
  <2> QED BY <2>2, <2>3
<1>7. \A m \in DOMAIN q.todo : q.todo[m].op = "list" BY <1>2, <1>3
<1> QED BY <1>6, <1>7 DEF WalkAt

LEMMA StartPresent == ASSUME NEW pl, NEW q PROVE PresentAt(drive, q, Under(pl))
<1>1. Under(pl) \subseteq Dir \X File BY DEF Under, Files
<1>2. ASSUME NEW p \in Under(pl) PROVE \E i \in DOMAIN drive[p[1]] : drive[p[1]][i] = p[2]
  BY DEF Under, Files, Has, Range
<1> QED BY <1>1, <1>2 DEF PresentAt

LEMMA ReplaysWalk == ASSUME NetdiskInv, WalkInv, NEW j \in Job, Replays(j) PROVE WalkInv'
<1> DEFINE r == job[j]
           todo == plan[j].todo
           pl == plan[j]
           q == [at |-> "next", todo |-> todo, again |-> r.again, bearer |-> r.bearer, good |-> r.good,
                 code |-> r.code, entries |-> r.entries, more |-> r.more, tries |-> r.tries + 1]
<1>0. Shaped(r) /\ drive \in Drives BY JobFacts
<1>1. /\ UNCHANGED <<plan, drive, rows>> /\ steady' = [steady EXCEPT ![j] = Under(plan[j])]
      /\ Puts(j, [r EXCEPT !.at = "next", !.tries = @ + 1, !.todo = todo])
  BY DEF Replays, Restart, setup
<1> HIDE DEF r, todo
<1>2. [r EXCEPT !.at = "next", !.tries = @ + 1, !.todo = todo] = q
  BY ONLY <1>0, SetAtTriesTodo, Zenon
<1>3. q.at = "next" /\ q.todo = todo OBVIOUS
<1> HIDE DEF q
<1>4. \A k \in Job : job'[k] = IF k = j THEN q ELSE job[k] BY <1>1, <1>2 DEF Puts, NetdiskInv, JobsOK
<1>5. DOMAIN steady' = Job /\ \A k \in Job : steady'[k] = IF k = j THEN Under(plan[j]) ELSE steady[k]
  BY <1>1 DEF WalkInv
<1>6. ASSUME NEW k \in Job
      PROVE  WalkAt(plan[k], job'[k], drive, rows, steady'[k]) /\ PresentAt(drive, job'[k], steady'[k])
  <2>1. CASE k # j
    <3>1. job'[k] = job[k] /\ steady'[k] = steady[k] BY <1>4, <1>5, <2>1
    <3> QED BY <3>1 DEF WalkInv
  <2>2. CASE k = j
    <3>1. PresentAt(drive, q, Under(plan[j])) BY StartPresent
    <3>2. WalkAt(plan[j], q, drive, rows, Under(plan[j]))
      <4>1. CASE plan[j].kind # "index" BY <4>1 DEF WalkAt
      <4>2. CASE plan[j].kind = "index"
        <5>1. PICK d \in Dir : plan[j] = Index(d) BY <4>2 DEF WalkInv
        <5>2. q.todo = plan[j].todo BY <1>3 DEF todo
        <5> HIDE DEF todo
        <5> QED BY <1>0, <1>3, <5>1, <5>2, StartWalk
      <4> QED BY <4>1, <4>2
    <3>3. job'[k] = q /\ steady'[k] = Under(plan[j]) BY <1>4, <1>5, <2>2
    <3> QED BY <2>2, <3>1, <3>2, <3>3
  <2> QED BY <2>1, <2>2
<1> QED BY <1>1, <1>5, <1>6 DEF WalkInv

LEMMA QuietJobs ==
  ASSUME NetdiskInv, WalkInv, UNCHANGED <<plan, drive, steady>>, \A p \in Path : Better(rows[p], rows'[p]),
         \A k \in Job : \/ job'[k] = job[k]
                        \/ job[k].at # "done" /\ (plan[k].kind = "index" => job'[k].at \in Off)
  PROVE  WalkInv'
<1>1. ASSUME NEW k \in Job
      PROVE  WalkAt(plan[k], job'[k], drive, rows', steady[k]) /\ PresentAt(drive, job'[k], steady[k])
  <2>1. CASE job'[k] = job[k]
    <3>1. Alike(job[k], job[k]) BY DEF Alike
    <3> QED BY <2>1, <3>1, QuietWalk
  <2>2. CASE job[k].at # "done" /\ (plan[k].kind = "index" => job'[k].at \in Off)
    <3>1. PresentAt(drive, job[k], steady[k]) BY JobFacts
    <3>2. PresentAt(drive, job'[k], steady[k]) BY <2>2, <3>1 DEF PresentAt
    <3>3. WalkAt(plan[k], job'[k], drive, rows', steady[k]) BY <2>2 DEF WalkAt
    <3> QED BY <3>2, <3>3
  <2> QED BY <1>1, <2>1, <2>2
<1> QED BY <1>1 DEF WalkInv

LEMMA RestWalk ==
  ASSUME NetdiskInv, WalkInv,
         \/ \E j \in Job : TimesOut(j) \/ StoreFails(j) \/ Cancels(j)
         \/ \E p \in Path : Tags(p)
         \/ \E t \in 1..MaxTokens : Expires(t)
         \/ Unloads \/ Closes
  PROVE  WalkInv'
<1>1. ASSUME NEW j \in Job, TimesOut(j) PROVE WalkInv'
  <2>1. job[j].at # "done" /\ Puts(j, Failed(j)) /\ UNCHANGED <<plan, drive, steady>> /\ UNCHANGED rows
    BY <1>1 DEF TimesOut, Unanswered, history, setup
  <2> QED BY <2>1, FailsWalk
<1>2. ASSUME NEW j \in Job, StoreFails(j) PROVE WalkInv'
  <2>1. job[j].at # "done" /\ Puts(j, Failed(j)) /\ UNCHANGED <<plan, drive, steady>> /\ UNCHANGED rows
    BY <1>2 DEF StoreFails, history, setup
  <2> QED BY <2>1, FailsWalk
<1>3. ASSUME NEW j \in Job, Cancels(j) PROVE WalkInv'
  <2> DEFINE r == job[j]
             q == [r EXCEPT !.at = "cancelled"]
  <2>1. job[j].at # "done" /\ Puts(j, q) /\ UNCHANGED <<plan, drive, steady, rows>>
    BY <1>3 DEF Cancels, history, setup
  <2>2. Shaped(r) BY JobFacts
  <2>3. q.at = "cancelled" BY <2>2 DEF Shaped
  <2>4. q.at \in Off /\ q.at # "mark" BY <2>3 DEF Off
  <2>5. \A p \in Path : Better(rows[p], rows'[p]) BY <2>1, Same
  <2> HIDE DEF q
  <2> QED BY <2>1, <2>4, <2>5, WalkPut
<1>4. ASSUME NEW p \in Path, Tags(p) PROVE WalkInv'
  <2>1. /\ UNCHANGED <<plan, drive, steady, job>> /\ ~rows[p].known
        /\ rows' = [rows EXCEPT ![p] = Registered]
    BY <1>4 DEF Tags, history, setup
  <2>2. ASSUME NEW x \in Path PROVE Better(rows[x], rows'[x])
    <3>1. CASE x # p BY <2>1, <3>1 DEF Better
    <3>2. CASE x = p
      <4>1. rows[p] = NoRow BY <2>1, RowShape
      <4>2. ~rows[p].indexed BY <4>1 DEF NoRow
      <4> QED BY <2>1, <3>2, <4>2 DEF Better
    <3> QED BY <3>1, <3>2
  <2> QED BY <2>1, <2>2, QuietJobs
<1>5. ASSUME NEW t \in 1..MaxTokens, Expires(t) PROVE WalkInv'
  <2>1. UNCHANGED <<plan, drive, steady, job, rows>> BY <1>5 DEF Expires, history, setup
  <2>2. \A p \in Path : Better(rows[p], rows'[p]) BY <2>1, Same
  <2> QED BY <2>1, <2>2, QuietJobs
<1>6. CASE Unloads
  <2>1. UNCHANGED <<plan, drive, steady, job, rows>> BY <1>6 DEF Unloads, history, setup
  <2>2. \A p \in Path : Better(rows[p], rows'[p]) BY <2>1, Same
  <2> QED BY <2>1, <2>2, QuietJobs
<1>7. CASE Closes
  <2>1. /\ UNCHANGED <<plan, drive, steady, rows>>
        /\ job' = [j \in Job |-> IF job[j].at \in {"login", "sent", "answered"} THEN Failed(j) ELSE job[j]]
    BY <1>7 DEF Closes, history, setup
  <2>2. \A p \in Path : Better(rows[p], rows'[p]) BY <2>1, Same
  <2>3. \A k \in Job : \/ job'[k] = job[k]
                       \/ job[k].at # "done" /\ (plan[k].kind = "index" => job'[k].at \in Off)
    BY <2>1, FailedIsOff
  <2> QED BY <2>1, <2>2, <2>3, QuietJobs
<1> QED BY <1>1, <1>2, <1>3, <1>4, <1>5, <1>6, <1>7

(* A walk is not disturbed by what another call has done to the drive outside of [cut]. *)
LEMMA OthersWalk ==
  ASSUME NEW pl, NEW r, r.todo \in Seq(Request), r.at \notin Ended => r.todo # <<>>,
         NEW dv, dv \in Drives, NEW dw, dw \in Drives, NEW rw, NEW cut, NEW st, st \subseteq Dir \X File,
         NEW su, su = IF r.at = "done" THEN st ELSE st \ cut,
         \A p \in Path : p \in cut \/ (Grows(dv[p[1]], dw[p[1]]) /\ (p[1] = Sub => Grows(dv["root"], dw["root"]))),
         WalkAt(pl, r, dv, rw, st)
  PROVE  WalkAt(pl, r, dw, rw, su)
<1>1. \A p \in Path : Better(rw[p], rw[p]) BY DEF Better
<1>2. CASE r.at = "done" BY <1>1, <1>2, DoneWalk
<1>3. CASE r.at # "done"
  <2>1. su = st \ cut BY <1>3
  <2>2. Alike(r, r) BY DEF Alike
  <2>3. \A p \in su : Grows(dv[p[1]], dw[p[1]]) /\ (p[1] = Sub => Grows(dv["root"], dw["root"]))
    BY <2>1 DEF Path
  <2>4. su \subseteq st BY <2>1
  <2> QED BY <1>1, <2>2, <2>3, <2>4, WalkKept
<1> QED BY <1>2, <1>3

LEMMA ServesWalk == ASSUME NetdiskInv, WalkInv, NEW j \in Job, Serves(j) PROVE WalkInv'
<1> DEFINE r == job[j]
           req == Want(j)
           code == IF r.bearer \in accepted THEN Answer(req) ELSE "401"
           page == IF req.op = "list" /\ code = "ok" /\ req.page <= Len(drive[req.dir]) THEN {drive[req.dir][req.page]} ELSE {}
           more == req.op = "list" /\ (lying \/ req.page < Len(drive[req.dir]))
           q == [r EXCEPT !.at = "answered", !.code = code, !.entries = page, !.more = more]
<1>0. /\ Shaped(r) /\ r.todo \in Seq(Request) /\ (r.at \notin Ended => r.todo # <<>>)
      /\ WalkAt(plan[j], r, drive, rows, steady[j]) /\ drive \in Drives
  BY JobFacts
<1>1. r.at = "sent" /\ UNCHANGED <<plan, rows>> /\ Puts(j, q)
  BY Zenon DEF Serves, setup
<1>2. IF code = "ok"
      THEN /\ drive' \in After(req)
           /\ steady' = [k \in Job |-> IF job[k].at = "done" THEN steady[k] ELSE steady[k] \ Shrunk(req)]
      ELSE UNCHANGED <<drive, steady>>
  BY DEF Serves, history
<1>3. req = r.todo[1] /\ req \in Request /\ r.todo # <<>> BY <1>0, <1>1 DEF Want, Ended
<1>4. q.at = "answered" /\ q.todo = r.todo /\ q.code = code /\ q.entries = page /\ q.more = more
  <2> HIDE DEF r, req, code, page, more
  <2> DEFINE w1 == [r EXCEPT !.at = "answered"]
             w2 == [w1 EXCEPT !.code = code]
             w3 == [w2 EXCEPT !.entries = page]
             w4 == [w3 EXCEPT !.more = more]
  <2>1. Shaped(w1) /\ w1.todo = r.todo /\ w1.at = "answered" BY <1>0 DEF Shaped
  <2> HIDE DEF w1
  <2>2. Shaped(w2) /\ w2.todo = r.todo /\ w2.at = "answered" /\ w2.code = code BY <2>1 DEF Shaped
  <2> HIDE DEF w2
  <2>3. Shaped(w3) /\ w3.todo = r.todo /\ w3.at = "answered" /\ w3.code = code /\ w3.entries = page BY <2>2 DEF Shaped
  <2> HIDE DEF w3
  <2>4. w4.todo = r.todo /\ w4.at = "answered" /\ w4.code = code /\ w4.entries = page /\ w4.more = more
    BY <2>3 DEF Shaped
  <2>5. q = w4 BY Zenon DEF w1, w2, w3
  <2> QED BY <2>4, <2>5
<1> HIDE DEF q
<1>5. \A k \in Job : job'[k] = IF k = j THEN q ELSE job[k] BY <1>1 DEF Puts, NetdiskInv, JobsOK
<1>6. CASE code # "ok"
  <2>1. UNCHANGED <<plan, drive, steady>> BY <1>1, <1>2, <1>6
  <2>2. Alike(r, q) BY <1>1, <1>4, <1>6 DEF Alike, Listed, Off
  <2>3. \A p \in Path : Better(rows[p], rows'[p]) BY <1>1, Same
  <2>4. q.at # "mark" /\ r.at # "done" BY <1>1, <1>4
  <2> HIDE DEF code, page, more, req
  <2> QED BY <1>1, <2>1, <2>2, <2>3, <2>4, WalkPut
<1>7. CASE code = "ok"
  <2>1. drive' \in After(req) /\ steady' = [k \in Job |-> IF job[k].at = "done" THEN steady[k] ELSE steady[k] \ Shrunk(req)]
    BY <1>2, <1>7
  <2>2. code = "ok" BY <1>7
  <2> HIDE DEF code, page, more, req
  <2> DEFINE dw == drive'
  <2>3. /\ dw \in Drives
        /\ \A d \in Dir : req.op \notin Takes \/ req.dir \notin {"root", d} => Grows(drive[d], dw[d])
    BY <1>0, <1>3, <2>1, DriveStep
  <2>4. DOMAIN steady' = Job /\ \A k \in Job : steady'[k] = IF job[k].at = "done" THEN steady[k] ELSE steady[k] \ Shrunk(req)
    BY <2>1
  <2> HIDE DEF dw
  <2>5. ASSUME NEW p \in Path, p \notin Shrunk(req)
        PROVE  Grows(drive[p[1]], dw[p[1]]) /\ (p[1] = Sub => Grows(drive["root"], dw["root"]))
    <3>1. req.op \notin Takes \/ req.dir \notin {"root", p[1]} BY <2>5 DEF Shrunk, Takes
    <3>2. p[1] \in Dir /\ "root" \in Dir BY DEF Path, Dir
    <3> QED BY <2>3, <3>1, <3>2
  <2>6. ASSUME NEW k \in Job, k # j
        PROVE  WalkAt(plan[k], job[k], dw, rows, steady'[k])
    <3> DEFINE rk == job[k]
               st == steady[k]
               su == steady'[k]
               pl == plan[k]
               cut == Shrunk(req)
    <3>0. /\ WalkAt(pl, rk, drive, rows, st) /\ rk.todo \in Seq(Request) /\ (rk.at \notin Ended => rk.todo # <<>>)
          /\ PresentAt(drive, rk, st) /\ drive \in Drives
      BY JobFacts
    <3>1. st \subseteq Dir \X File BY <3>0 DEF PresentAt
    <3>2. su = IF rk.at = "done" THEN st ELSE st \ cut BY <2>4
    <3>3. \A p \in Path : p \in cut \/ (Grows(drive[p[1]], dw[p[1]]) /\ (p[1] = Sub => Grows(drive["root"], dw["root"])))
      BY <2>5
    <3>4. dw \in Drives BY <2>3
    <3> HIDE DEF rk, st, su, pl, cut
    <3>5. WalkAt(pl, rk, dw, rows, su) BY ONLY <3>0, <3>1, <3>2, <3>3, <3>4, OthersWalk, Zenon
    <3> QED BY <3>5 DEF pl, rk, su
  <2>7. ASSUME NEW k \in Job, NEW x, x.at = "done" <=> job[k].at = "done"
        PROVE  PresentAt(dw, x, steady'[k])
    <3>0. PresentAt(drive, job[k], steady[k]) /\ drive \in Drives BY JobFacts
    <3>1. steady'[k] \subseteq steady[k] BY <2>4
    <3>2. CASE x.at = "done" BY <3>0, <3>1, <3>2 DEF PresentAt
    <3>3. CASE x.at # "done"
      <4>1. ASSUME NEW p \in steady'[k] PROVE \E i \in DOMAIN dw[p[1]] : dw[p[1]][i] = p[2]
        <5>1. p \in steady[k] /\ p \notin Shrunk(req) BY <2>4, <2>7, <3>3
        <5>2. p \in Path BY <3>0, <5>1 DEF PresentAt, Path
        <5>3. PICK i \in DOMAIN drive[p[1]] : drive[p[1]][i] = p[2] BY <2>7, <3>0, <3>3, <5>1 DEF PresentAt
        <5>4. Grows(drive[p[1]], dw[p[1]]) BY <2>5, <5>1, <5>2
        <5> QED BY <5>3, <5>4 DEF Grows
      <4> QED BY <3>0, <3>1, <4>1 DEF PresentAt
    <3> QED BY <3>2, <3>3
  <2>8. WalkAt(plan[j], q, dw, rows, steady'[j])
    <3>1. CASE plan[j].kind # "index" BY <3>1 DEF WalkAt
    <3>2. CASE plan[j].kind = "index"
      <4>1. req.op = "list"
        <5>1. \A m \in DOMAIN r.todo : r.todo[m].op = "list" BY <1>0, <1>1, <3>2 DEF WalkAt, Off
        <5>2. 1 \in DOMAIN r.todo BY <1>0, <1>3
        <5> QED BY <1>3, <5>1, <5>2
      <4>2. dw = drive BY <2>1, <4>1 DEF After, dw
      <4>3. steady'[j] = steady[j] BY <1>1, <2>4, <4>1 DEF Shrunk
      <4> DEFINE s == drive[req.dir]
      <4>4. page = IF req.page <= Len(s) THEN {s[req.page]} ELSE {} BY <2>2, <4>1 DEF page
      <4>5. req.page < Len(s) => more BY <4>1 DEF more
      <4>6. s = drive[r.todo[1].dir] BY <1>3
      <4> HIDE DEF s
      <4> DEFINE pl == plan[j]
                 st == steady[j]
      <4>7. /\ pl.kind = "index" /\ WalkAt(pl, r, drive, rows, st) /\ drive \in Drives /\ r.todo \in Seq(Request)
            /\ r.todo # <<>> /\ r.at = "sent" /\ q.at = "answered" /\ q.todo = r.todo /\ q.code = "ok"
            /\ q.entries = IF r.todo[1].page <= Len(s) THEN {s[r.todo[1].page]} ELSE {}
            /\ r.todo[1].page < Len(s) => q.more
        BY <1>0, <1>1, <1>3, <1>4, <2>2, <3>2, <4>4, <4>5
      <4>8. WalkAt(pl, q, drive, rows, st)
        <5> HIDE DEF pl, st, r
        <5> QED BY <4>6, <4>7, ServedWalk
      <4> QED BY <4>2, <4>3, <4>8
    <3> QED BY <3>1, <3>2
  <2>9. ASSUME NEW k \in Job
        PROVE  WalkAt(plan[k], job'[k], dw, rows, steady'[k]) /\ PresentAt(dw, job'[k], steady'[k])
    <3>1. CASE k # j BY <1>5, <2>6, <2>7, <3>1
    <3>2. CASE k = j
      <4>1. q.at # "done" /\ job[j].at # "done" BY <1>1, <1>4
      <4> QED BY <1>5, <2>7, <2>8, <3>2, <4>1
    <3> QED BY <3>1, <3>2
  <2> QED BY <1>1, <2>3, <2>4, <2>9 DEF WalkInv, dw
<1> QED BY <1>6, <1>7

LEMMA WalkStep == NetdiskInv /\ WalkInv /\ [Next]_vars => WalkInv'
<1> SUFFICES ASSUME NetdiskInv, WalkInv, [Next]_vars PROVE WalkInv' OBVIOUS
<1>1. CASE Next
  <2>1. ASSUME NEW j \in Job, Steps(j) PROVE WalkInv'
    BY <2>1, BeginsWalk, LogsInWalk, ServesWalk, ReceivesWalk, RegistersWalk, MarksWalk, ReplaysWalk DEF Steps
  <2> QED BY <1>1, <2>1, RestWalk DEF Next
<1>2. CASE UNCHANGED vars
  <2>1. UNCHANGED <<plan, drive, steady, job, rows>> BY <1>2 DEF vars, setup, history
  <2>2. \A p \in Path : Better(rows[p], rows'[p]) BY <2>1, Same
  <2> QED BY <2>1, <2>2, QuietJobs
<1> QED BY <1>1, <1>2

LEMMA WalkInit == Init => WalkInv
<1> SUFFICES ASSUME Init PROVE WalkInv OBVIOUS
<1>1. PICK s \in Scenarios : plan = s.plan /\ drive = s.drive BY DEF Init
<1>2. drive \in Drives
  <2>1. drive \in [Dir -> Seq(File \cup {Sub})] BY <1>1, NetdiskAssumption DEF NetdiskAssumption
  <2>2. ASSUME NEW d \in Dir PROVE drive[d] \in Seq(Name)
    <3>1. drive[d] \in Seq(File \cup {Sub}) BY <2>1
    <3> QED BY <3>1 DEF Name
  <2> QED BY <2>1, <2>2 DEF Drives
<1>3. /\ job = [j \in Job |-> Idle(plan[j])]
      /\ steady = [j \in Job |-> IF plan[j].kind = "index" THEN Under(plan[j]) ELSE {}]
  BY DEF Init
<1>4. \A j \in Job : plan[j].kind = "index" => \E d \in Dir : plan[j] = Index(d)
  BY <1>1, IndexAssumption DEF IndexAssumption
<1>5. ASSUME NEW j \in Job
      PROVE  PresentAt(drive, job[j], steady[j]) /\ WalkAt(plan[j], job[j], drive, rows, steady[j])
  <2>1. CASE plan[j].kind # "index"
    <3>1. steady[j] = {} BY <1>3, <2>1
    <3> QED BY <2>1, <3>1 DEF PresentAt, WalkAt
  <2>2. CASE plan[j].kind = "index"
    <3>1. PICK d \in Dir : plan[j] = Index(d) BY <1>4, <2>2
    <3>2. steady[j] = Under(plan[j]) /\ job[j].todo = plan[j].todo /\ job[j].at = "next"
      BY <1>3, <2>2 DEF Idle
    <3>3. WalkAt(plan[j], job[j], drive, rows, Under(plan[j])) BY <1>2, <3>1, <3>2, StartWalk
    <3>4. PresentAt(drive, job[j], Under(plan[j])) BY StartPresent
    <3> QED BY <3>2, <3>3, <3>4
  <2> QED BY <2>1, <2>2
<1> QED BY <1>2, <1>3, <1>4, <1>5 DEF WalkInv

(* An index that reports success has marked every file that was under its directory
   when it started, as long as nothing was taken from there: however the pages it
   lists move under it, and however often the queue replays it. *)
THEOREM IndexedAllAlways == Spec => []IndexedAll
<1>1. WalkInv => IndexedAll
  <2> SUFFICES ASSUME WalkInv, NEW j \in Job, plan[j].kind = "index", job[j].at = "done", NEW p \in steady[j]
               PROVE  rows[p].indexed
    BY DEF IndexedAll
  <2>1. WalkAt(plan[j], job[j], drive, rows, steady[j]) BY DEF WalkInv
  <2>2. job[j].todo = <<>> /\ Covered(drive, rows[p], job[j], p) BY <2>1 DEF WalkAt, Off
  <2>3. ~Listed(job[j]) /\ DOMAIN job[j].todo = {} BY <2>2 DEF Listed
  <2> QED BY <2>2, <2>3 DEF Covered, Found, Seen, Coming
<1>2. NetdiskInv /\ WalkInv /\ [Next]_vars => (NetdiskInv /\ WalkInv)' BY InvStep, WalkStep
<1>3. Init => NetdiskInv /\ WalkInv BY Initially, WalkInit
<1> QED BY <1>1, <1>2, <1>3, PTL DEF Spec
=============================================================================
