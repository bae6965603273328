------------------------------- MODULE Groups -------------------------------
(***************************************************************************)
(* The groups of several accounts: the scans that list them and write      *)
(* their rows, the file scan chained to each group a scan has persisted,   *)
(* the sweep that hides the groups of accounts that went away and shows    *)
(* them again, the removal of a group by the user, and the account a call  *)
(* for a group is made as.                                                 *)
(*                                                                         *)
(* An account has one bot, and both are named by a number, the order in    *)
(* which the dispatcher lets them claim groups.  What a scan collects of a *)
(* group besides its role (capacity, counts, name, label) is left out: no  *)
(* step below depends on it.                                               *)
(***************************************************************************)
EXTENDS Integers, FiniteSets, FiniteSetsExt

CONSTANTS
  Account,    \* accounts, a set of numbers
  Group,      \* groups
  None,       \* no account, no filter, no operation
  Scenarios,  \* where a behaviour starts and the faults met in it (a bound)
  MaxTrouble, \* bound on faults and requests
  MaxDue,     \* groups a sweep claims for rescan (50 in the code)
  MaxQueued   \* bound on queued file scans of a group

VARIABLES
  faults,  \* the kinds of fault of this behaviour
  platform,\* the accounts whose bots the platform lists
  member,  \* account -> groups it is a member of
  up,      \* accounts that answer
  bots,    \* PlatformBotResolver.bots
  online,  \* _online_account_ids
  bound,   \* accounts with an entry in _account_bots
  pin,     \* the shared adapter's _account_bot
  rows,    \* the groups table
  cache,   \* the dispatcher's copy of owner and managed
  sched,   \* scan_schedule: none, later, due
  hidden,  \* _hidden_accounts
  misses,  \* _offline_misses
  known,   \* _known_accounts
  health,  \* account -> consecutive failures, up to 3
  cooling, \* accounts whose cooldown runs
  halted,  \* the global cooldown runs
  scans,   \* queued scans: [mode, filter]
  scan,    \* the scan that runs, a worker per bot (one at a time: a bound)
  files,   \* group -> queued file scans
  file,    \* the file scan that runs (one at a time: a bound), its call: asked as, made by
  chained, \* _chained_file_scan_groups
  sweep,   \* where the periodic sweep is, and what its probes said
  asked,   \* a removal or restoration between its two writes
  listed,  \* history: account -> groups it was told it is a member of
  leaked,  \* history: groups whose chained scan was refused or cancelled
  trouble

world == <<member, up, platform>>
resolver == <<bots, online, bound>>
sweeper == <<hidden, misses, known, sweep>>
breaker == <<health, cooling, halted>>
chain == <<files, file, chained, leaked>>
vars == <<faults, world, resolver, pin, rows, cache, sched, sweeper, breaker, scans, scan,
          chain, asked, listed, trouble>>

Trouble(what) == what \in faults /\ trouble < MaxTrouble /\ trouble' = trouble + 1

NoRow == [known |-> FALSE, owner |-> None, managed |-> TRUE, removed |-> FALSE, judged |-> FALSE]
GroupRow == [known : BOOLEAN, owner : Account \cup {None}, managed : BOOLEAN,
             removed : BOOLEAN, judged : BOOLEAN]

(* A behaviour starts with rows and counts the program writes. *)
ASSUME GroupsAssumption ==
  /\ MaxQueued \in Nat
  /\ None \notin [group : Group, at : {"gate", "sync"}, want : Account \cup {None},
                 by : Account \cup {None}]
  /\ \A s \in Scenarios :
       /\ s.platform \subseteq Account /\ s.bots \subseteq Account /\ s.up \subseteq Account
       /\ s.member \in [Account -> SUBSET Group] /\ s.rows \in [Group -> GroupRow]
       /\ \A g \in Group : s.rows[g].known \/ s.rows[g] = NoRow
       /\ s.misses \in [Account -> 0 .. 2] /\ s.health \in [Account -> 0 .. 3]

Cached(r) == [known |-> r.known, owner |-> r.owner, managed |-> r.managed]
Snapshot == [g \in Group |-> Cached(rows[g])]
Fresh == IF "stale" \in faults THEN {Snapshot} ELSE {} \* the minute is over
Incremental(filter) == [mode |-> "incremental", filter |-> filter]
Full(filter) == [mode |-> "full", filter |-> filter]

----------------------------------------------------------------------------
(* The groups table. *)

OwnedBy(a) == {g \in Group : rows[g].known /\ rows[g].owner = a}
Written(gs, shown) == [g \in Group |-> IF g \in gs THEN [rows[g] EXCEPT !.managed = shown] ELSE rows[g]]
Restorable(a) == {g \in OwnedBy(a) : ~rows[g].managed /\ ~rows[g].removed}
Hideable(a) == {g \in OwnedBy(a) : rows[g].managed}

(* The page: two writes each, in this order. *)
Asks(what, g) ==
  /\ asked = None /\ rows[g].known /\ Trouble(what) /\ asked' = [what |-> what, group |-> g]
  /\ rows' = IF what = "remove" THEN Written({g}, FALSE)
             ELSE [rows EXCEPT ![g].removed = FALSE]
  /\ UNCHANGED <<faults, world, resolver, pin, cache, sched, sweeper, breaker, scans, scan,
                 chain, listed>>
Answers ==
  /\ asked # None /\ asked' = None
  /\ rows' = IF asked.what = "remove" THEN [rows EXCEPT ![asked.group].removed = TRUE]
             ELSE Written({asked.group}, TRUE)
  /\ UNCHANGED <<faults, world, resolver, pin, cache, sched, sweeper, breaker, scans, scan,
                 chain, listed, trouble>>

----------------------------------------------------------------------------
(* A scan. *)

Worker(filter) == [at |-> "login", filter |-> filter, heard |-> {}, before |-> <<>>, todo |-> {},
                   total |-> 0, failed |-> 0, group |-> None]

Heard(b) == IF b \in up THEN member[b] ELSE {}
Assigned(b, filter) ==
  {g \in Heard(b) : /\ filter # None => g \in filter
                    /\ \A c \in bots : c < b => g \notin Heard(c)}

Cools(b) == b \in cooling
TooMany == halted \/ 2 * Cardinality({b \in bots : Cools(b)}) > Cardinality(bots)

Takes(s) ==
  /\ scan = None /\ s \in scans /\ scans' = scans \ {s}
  /\ IF Cardinality(bots) <= 1
     THEN /\ pin' = IF bots = {} THEN pin ELSE CHOOSE b \in bots : TRUE
          /\ scan' = IF pin' = None THEN None
                     ELSE [op |-> s, solo |-> TRUE, cancelled |-> FALSE,
                           part |-> [b \in {pin'} |-> Worker(s.filter)]]
          /\ UNCHANGED halted
     ELSE /\ halted' = TooMany /\ UNCHANGED pin
          /\ scan' = IF TooMany THEN None
                     ELSE [op |-> s, solo |-> FALSE, cancelled |-> FALSE,
                           part |-> [b \in {c \in bots : ~Cools(c)} |-> Worker(Assigned(b, s.filter))]]
  /\ UNCHANGED <<faults, world, resolver, rows, cache, sched, sweeper, health, cooling, chain,
                 asked, listed, trouble>>

At(b, where) == scan # None /\ b \in DOMAIN scan.part /\ scan.part[b].at = where
Part(b, w) == scan' = [scan EXCEPT !.part[b] = w]
Over(b) == Part(b, [at |-> "end"])

Failure(b) == /\ health' = [health EXCEPT ![b] = Min({3, @ + 1})]
              /\ cooling' = IF health'[b] = 3 THEN cooling \cup {b} ELSE cooling
Success(b) == health' = [health EXCEPT ![b] = 0] /\ cooling' = cooling \ {b}
Settles(b, bad) ==
  /\ IF scan.solo THEN UNCHANGED <<health, cooling>> ELSE IF bad THEN Failure(b) ELSE Success(b)
  /\ UNCHANGED halted

(* Whose connection a worker's calls go over: its own adapter, or the shared
   one, which the scan of a lone bot has bound to it. *)
Speaks(b) == b

PartFails(b) ==
  /\ \/ At(b, "login") \/ At(b, "list")
  /\ Speaks(b) \notin up /\ Over(b) /\ Settles(b, TRUE)
  /\ UNCHANGED <<faults, world, resolver, pin, rows, cache, sched, sweeper, scans, chain, asked,
                 listed, trouble>>

(* get_login_info, and what is done once the account is resolved: its groups
   are shown, and if some were hidden all of them are to be scanned in full. *)
Shows_Removed(a) == {g \in OwnedBy(a) : ~rows[g].managed}
Shows(a) == Restorable(a)
Logs(b) ==
  LET me == Speaks(b) IN
  /\ At(b, "login") /\ me \in up /\ Part(b, [scan.part[b] EXCEPT !.at = "list"])
  /\ online' = online \cup {me} /\ bound' = bound \cup {me} /\ rows' = Written(Shows(me), TRUE)
  /\ scans' = IF Shows(me) = {} THEN scans ELSE scans \cup {Full(OwnedBy(me))}
  /\ UNCHANGED <<faults, world, bots, pin, cache, sched, sweeper, breaker, chain, asked, listed,
                 trouble>>

Lists(b) ==
  /\ At(b, "list") /\ Speaks(b) \in up
  /\ Part(b, [scan.part[b] EXCEPT !.at = "read", !.heard = member[Speaks(b)]])
  /\ listed' = [listed EXCEPT ![Speaks(b)] = @ \cup member[Speaks(b)]]
  /\ UNCHANGED <<faults, world, resolver, pin, rows, cache, sched, sweeper, breaker, scans, chain,
                 asked, trouble>>

(* The groups of its own listing, also when the filter asks for more. *)
Todo_Asked(w) == IF w.filter = None THEN w.heard ELSE w.filter
Todo(w) == {g \in w.heard : w.filter # None => (g \in w.filter \/ ~rows[g].known)}
Reads(b) ==
  LET w == scan.part[b]
  IN /\ At(b, "read")
     /\ Part(b, [w EXCEPT !.at = "next", !.before = rows, !.todo = Todo(w), !.total = Cardinality(Todo(w))])
     /\ UNCHANGED <<faults, world, resolver, pin, rows, cache, sched, sweeper, breaker, scans, chain,
                    asked, listed, trouble>>

(* Whether the dispatcher has hung its callback into the scan. *)
Wired == "chain" \in faults

(* The role is asked for unless it is known.  The row is written from what the
   scan read before, and keeps its managed and removed. *)
Persisted(r, me, judged) ==
  [known |-> TRUE, owner |-> me, managed |-> r.managed, removed |-> r.removed, judged |-> judged]
Persists(b, g, asks, ok) ==
  LET w == scan.part[b]
      judged == w.before[g].judged \/ (asks /\ ok)
  IN /\ At(b, "next") /\ g \in w.todo /\ ~scan.cancelled
     /\ ok => Speaks(b) \in up
     /\ IF asks /\ ~ok /\ Speaks(b) \in up THEN Trouble("judge") ELSE UNCHANGED trouble
     /\ rows' = [rows EXCEPT ![g] = Persisted(@, Speaks(b), judged)]
     /\ Part(b, [w EXCEPT !.todo = @ \ {g}, !.group = g,
                          !.failed = IF asks /\ ~ok THEN @ + 1 ELSE @,
                          !.at = IF Wired /\ (judged \/ w.before[g].known) THEN "chain" ELSE "next"])
     /\ UNCHANGED <<faults, world, resolver, pin, cache, sweeper, breaker, scans, chain, asked,
                    listed>>

Collects(b, g) ==
  /\ At(b, "next") /\ scan.op.mode = "full"
  /\ \E ok \in BOOLEAN : Persists(b, g, ~scan.part[b].before[g].judged, ok)
  /\ sched' = [sched EXCEPT ![g] = "later"]

(* An incremental scan asks nothing about a group whose capacity is known. *)
Updates(b, g) ==
  /\ At(b, "next") /\ scan.op.mode = "incremental" /\ UNCHANGED sched
  /\ LET prev == scan.part[b].before[g] IN
     \E need \in IF prev.known THEN BOOLEAN ELSE {TRUE}, ok \in BOOLEAN :
       Persists(b, g, need /\ ~prev.judged, ok)

(* The file scan chained to it.  The copy of the table is a minute old at
   most; while it is read again others run. *)
Chain(b, c) ==
  LET w == scan.part[b]
      goes == c[w.group].known => c[w.group].managed
  IN /\ Part(b, [w EXCEPT !.at = "next", !.group = None])
     /\ IF goes /\ files[w.group] < MaxQueued
        THEN /\ chained' = chained \cup {w.group} /\ files' = [files EXCEPT ![w.group] = @ + 1]
        ELSE UNCHANGED <<chained, files>>
Chained(b) ==
  /\ At(b, "chain") /\ UNCHANGED <<cache>>
  /\ IF scan.part[b].group \in chained
     THEN Part(b, [scan.part[b] EXCEPT !.at = "next", !.group = None]) /\ UNCHANGED <<chained, files>>
     ELSE Chain(b, cache)
  /\ UNCHANGED <<faults, world, resolver, pin, rows, sched, sweeper, breaker, scans, file, leaked,
                 asked, listed, trouble>>
Stale(b) ==
  /\ At(b, "chain") /\ scan.part[b].group \notin chained /\ Fresh # {}
  /\ Part(b, [scan.part[b] EXCEPT !.at = "refresh"])
  /\ UNCHANGED <<faults, world, resolver, pin, rows, cache, sched, sweeper, breaker, scans, chain,
                 asked, listed, trouble>>
Refreshed(b) ==
  /\ At(b, "refresh") /\ cache' = Snapshot /\ Chain(b, Snapshot)
  /\ UNCHANGED <<faults, world, resolver, pin, rows, sched, sweeper, breaker, scans, file, leaked,
                 asked, listed, trouble>>

(* The end: an unfiltered incremental scan hides what this account was shown
   with when the scan read the table and is no longer a member of. *)
Gone(b) ==
  LET w == scan.part[b] IN
  IF scan.op.mode = "incremental" /\ w.filter = None
  THEN {g \in Group \ w.heard : LET r == w.before[g] IN r.known /\ r.managed /\ r.owner = Speaks(b)}
  ELSE {}
Converges(b) ==
  LET w == scan.part[b] IN
  /\ At(b, "next") /\ w.todo = {} /\ rows' = Written(Gone(b), FALSE)
  /\ Over(b) /\ Settles(b, 2 * w.failed > w.total)
  /\ UNCHANGED <<faults, world, resolver, pin, cache, sched, sweeper, scans, chain, asked, listed,
                 trouble>>

Stops(b) ==
  /\ At(b, "next") /\ scan.cancelled /\ scan.part[b].todo # {}
  /\ Over(b)
  /\ UNCHANGED <<faults, world, resolver, pin, rows, cache, sched, sweeper, breaker, scans, chain,
                 asked, listed, trouble>>
Cancels ==
  /\ scan # None /\ ~scan.cancelled /\ Trouble("cancel") /\ scan' = [scan EXCEPT !.cancelled = TRUE]
  /\ UNCHANGED <<faults, world, resolver, pin, rows, cache, sched, sweeper, breaker, scans, chain,
                 asked, listed>>
Ends ==
  /\ scan # None /\ \A b \in DOMAIN scan.part : scan.part[b].at = "end"
  /\ scan' = None
  /\ UNCHANGED <<faults, world, resolver, pin, rows, cache, sched, sweeper, breaker, scans, chain,
                 asked, listed, trouble>>

CoolsDown ==
  /\ \/ \E b \in cooling : cooling' = cooling \ {b} /\ UNCHANGED halted
     \/ halted /\ halted' = FALSE /\ UNCHANGED cooling
  /\ UNCHANGED <<faults, world, resolver, pin, rows, cache, sched, sweeper, health, scans, scan,
                 chain, asked, listed, trouble>>

----------------------------------------------------------------------------
(* A file scan of one group. *)

(* The bot that makes a call over the shared adapter in the scope of account
   a: the adapter's own binding comes first, then the bot bound to the
   account, then any. *)
Via(a) == IF pin # None THEN {pin} ELSE IF a \in bound \cap bots THEN {a} ELSE bots

(* handle() and the gate ask as the row's owner; the group's name must come
   back.  The synchronisation asks as the cached owner. *)
Calls(g, at, a) ==
  \E by \in IF Via(a) = {} THEN {None} ELSE Via(a) :
    file' = [group |-> g, at |-> at, want |-> IF a \in bound \cap bots THEN a ELSE None, by |-> by]
Owned(g) == rows[g].known /\ (rows[g].owner # None => rows[g].owner \in online)

Forgets_Late(g) == chained
Forgets(g) == chained \ {g}
Lost(g) == leaked' = IF g \in chained /\ files'[g] = 0 THEN leaked \cup {g} ELSE leaked
Opens(g) ==
  /\ file = None /\ files[g] > 0 /\ files' = [files EXCEPT ![g] = @ - 1]
  /\ IF Owned(g) THEN Calls(g, "gate", rows[g].owner) /\ UNCHANGED leaked
     ELSE Lost(g) /\ UNCHANGED file
  /\ UNCHANGED <<faults, world, resolver, pin, rows, cache, sched, sweeper, breaker, scans, scan,
                 chained, asked, listed, trouble>>
Passes == file.by \in up /\ file.group \in member[file.by]
Gates ==
  /\ file # None /\ file.at = "gate"
  /\ \E c \in {cache} \cup Fresh :
       IF Passes THEN /\ cache' = c /\ Calls(file.group, "sync", c[file.group].owner)
                      /\ chained' = Forgets(file.group) /\ leaked' = leaked \ {file.group}
       ELSE file' = None /\ UNCHANGED <<chained, cache, files>> /\ Lost(file.group)
  /\ UNCHANGED <<faults, world, resolver, pin, rows, sched, sweeper, breaker, scans, scan, files,
                 asked, listed, trouble>>
Syncs ==
  /\ file # None /\ file.at = "sync"
  /\ file' = None /\ chained' = Forgets(file.group) /\ leaked' = leaked \ {file.group}
  /\ UNCHANGED <<faults, world, resolver, pin, rows, cache, sched, sweeper, breaker, scans, scan,
                 files, asked, listed, trouble>>
Drops(g) ==
  /\ files[g] > 0 /\ Trouble("cancel") /\ files' = [files EXCEPT ![g] = @ - 1] /\ Lost(g)
  /\ UNCHANGED <<faults, world, resolver, pin, rows, cache, sched, sweeper, breaker, scans, scan,
                 file, chained, asked, listed>>

----------------------------------------------------------------------------
(* The sweep, once a minute. *)

Unbinds(stale) == bound \ stale

(* Two probes of each bot; a bot that answers neither is dropped, and the
   account bound to it is stale. *)
Probes ==
  /\ sweep.at = "idle"
  /\ \E dead \in {bots \ up} \cup {(bots \ up) \cup {b} : b \in bots \cap up} :
       LET alive == bots \ dead
           stale == dead \cap bound
       IN /\ IF dead \subseteq bots \ up THEN UNCHANGED trouble ELSE Trouble("probe")
          /\ bots' = alive
          /\ online' = (online \ stale) \cup alive /\ bound' = Unbinds(stale) \cup alive
          /\ sweep' = [at |-> "hide", stale |-> stale, alive |-> alive]
  /\ UNCHANGED <<faults, world, pin, rows, cache, sched, hidden, misses, known, breaker, scans,
                 scan, chain, asked, listed>>

Hides(as) == UNION {Hideable(a) : a \in as}
Marked(as) == {a \in as : Hideable(a) # {}}
Remembers_Not(as) == {}
Remembers(as) == Marked(as)
Reveals == sweep.alive \cap (hidden \cup Remembers(sweep.stale))
Applies ==
  /\ sweep.at = "hide" /\ sweep' = [sweep EXCEPT !.at = "miss"]
  /\ hidden' = (hidden \cup Remembers(sweep.stale)) \ Reveals
  /\ rows' = [g \in Group |->
       IF g \in Hides(sweep.stale) THEN [rows[g] EXCEPT !.managed = FALSE]
       ELSE IF \E a \in Reveals : g \in Shows(a) THEN [rows[g] EXCEPT !.managed = TRUE] ELSE rows[g]]
  /\ UNCHANGED <<faults, world, resolver, pin, cache, sched, misses, known, breaker, scans, scan,
                 chain, asked, listed, trouble>>

Limit == 3
Absent == {a \in Account : Hideable(a) # {} /\ a \notin sweep.alive}
Misses ==
  LET out == {a \in Absent : misses[a] + 1 >= Limit} IN
  /\ sweep.at = "miss" /\ sweep' = [sweep EXCEPT !.at = "resolve"]
  /\ misses' = [a \in Account |-> IF Hideable(a) = {} THEN misses[a]
                                  ELSE IF a \in Absent \ out THEN misses[a] + 1 ELSE 0]
  /\ rows' = Written(Hides(out), FALSE) /\ hidden' = hidden \cup Remembers(out)
  /\ UNCHANGED <<faults, world, resolver, pin, cache, sched, known, breaker, scans, scan, chain,
                 asked, listed, trouble>>

(* The platform lists every bot, whether it answers or not. *)
Registers == (platform \ bots) \cap up
Resolves ==
  /\ sweep.at = "resolve" /\ sweep' = [at |-> "due", stale |-> {}, alive |-> {}]
  /\ bots' = bots \cup platform /\ online' = online \cup Registers /\ bound' = bound \cup Registers
  /\ known' = known \cup online'
  /\ scans' = IF online' \subseteq known THEN scans ELSE scans \cup {Incremental(None)}
  /\ UNCHANGED <<faults, world, pin, rows, cache, sched, hidden, misses, breaker, scan, chain,
                 asked, listed, trouble>>

Due == {g \in Group : sched[g] = "due"}
Claims ==
  /\ sweep.at = "due" /\ sweep' = [sweep EXCEPT !.at = "idle"]
  /\ \/ UNCHANGED scans
     \/ \E ids \in SUBSET Due : /\ ids # {} /\ Cardinality(ids) = Min({MaxDue, Cardinality(Due)})
                                /\ scans' = scans \cup {Full(ids)}
  /\ UNCHANGED <<faults, world, resolver, pin, rows, cache, sched, hidden, misses, known, breaker,
                 scan, chain, asked, listed, trouble>>

----------------------------------------------------------------------------
(* What happens around it. *)

Expires(g) ==
  /\ "ttl" \in faults /\ sched[g] = "later" /\ sched' = [sched EXCEPT ![g] = "due"]
  /\ UNCHANGED <<faults, world, resolver, pin, rows, cache, sweeper, breaker, scans, scan, chain,
                 asked, listed, trouble>>

(* An event of an account whose bot is not registered. *)
Event(a) ==
  /\ "event" \in faults /\ a \in up \ bots /\ bots' = bots \cup {a} /\ scans' = scans \cup {Incremental(None)}
  /\ UNCHANGED <<faults, world, online, bound, pin, rows, cache, sched, sweeper, breaker, scan,
                 chain, asked, listed, trouble>>

PageScans(s) ==
  /\ Trouble("page") /\ scans' = scans \cup {s}
  /\ UNCHANGED <<faults, world, resolver, pin, rows, cache, sched, sweeper, breaker, scan, chain,
                 asked, listed>>

Falls(a) == a \in up /\ Trouble("down") /\ up' = up \ {a} /\ UNCHANGED <<member, platform>>
Rises(a) == a \notin up /\ up' = up \cup {a} /\ UNCHANGED <<member, platform, trouble>>
Leaves(a, g) ==
  /\ g \in member[a] /\ Trouble("leave")
  /\ member' = [member EXCEPT ![a] = @ \ {g}] /\ UNCHANGED <<up, platform>>
World ==
  /\ \/ \E a \in Account : Falls(a) \/ Rises(a)
     \/ \E a \in Account, g \in Group : Leaves(a, g)
  /\ UNCHANGED <<faults, resolver, pin, rows, cache, sched, sweeper, breaker, scans, scan, chain,
                 asked, listed>>

----------------------------------------------------------------------------
Init ==
  \E s \in Scenarios :
    /\ faults = s.faults /\ platform = s.platform /\ member = s.member /\ up = s.up /\ bots = s.bots
    /\ online = s.bots \cap s.up /\ bound = s.bots \cap s.up /\ pin = None
    /\ rows = s.rows /\ cache = [g \in Group |-> Cached(s.rows[g])]
    /\ sched = [g \in Group |-> "none"] /\ hidden = {} /\ misses = s.misses
    /\ known = s.bots \cap s.up /\ health = s.health /\ cooling = {a \in Account : s.health[a] = 3} /\ halted = FALSE
    /\ scans = s.scans /\ scan = None
    /\ files = [g \in Group |-> 0] /\ file = None /\ chained = {} /\ leaked = {}
    /\ sweep = [at |-> "idle", stale |-> {}, alive |-> {}] /\ asked = None
    /\ listed = [a \in Account |-> {g \in Group : s.rows[g].owner = a}] /\ trouble = s.spent

Scan == \/ \E s \in scans : Takes(s)
        \/ \E b \in Account : \/ PartFails(b) \/ Logs(b) \/ Lists(b) \/ Reads(b) \/ Chained(b)
                              \/ Stale(b) \/ Refreshed(b) \/ Converges(b) \/ Stops(b)
                              \/ \E g \in Group : Collects(b, g) \/ Updates(b, g)
        \/ Ends
FileScan == Gates \/ Syncs \/ \E g \in Group : Opens(g)
Sweep == Probes \/ Applies \/ Misses \/ Resolves \/ Claims
User == \/ Answers \/ Cancels \/ \E g \in Group : Drops(g)
        \/ \E what \in {"remove", "restore"}, g \in Group : Asks(what, g)
        \/ \E s \in {Incremental(None), Full(None)} : PageScans(s)
Next == \/ Scan \/ FileScan \/ Sweep \/ User \/ World \/ CoolsDown
        \/ \E g \in Group : Expires(g)
        \/ \E a \in Account : Event(a)

Fairness == WF_vars(Scan) /\ WF_vars(FileScan) /\ WF_vars(Sweep) /\ WF_vars(Answers)
Spec == Init /\ [][Next]_vars /\ Fairness
----------------------------------------------------------------------------
(* Properties. *)

Workers == {"login", "list", "read", "next", "chain", "refresh", "end"}
TypeOK ==
  /\ member \in [Account -> SUBSET Group] /\ up \subseteq Account /\ bots \subseteq Account
  /\ online \subseteq Account /\ bound \subseteq online /\ pin \in Account \cup {None}
  /\ platform \subseteq Account /\ listed \in [Account -> SUBSET Group]
  /\ rows \in [Group -> GroupRow]
  /\ \A g \in Group : rows[g].known \/ rows[g] = NoRow
  /\ hidden \subseteq Account /\ misses \in [Account -> 0 .. Limit - 1]
  /\ health \in [Account -> 0 .. 3] /\ cooling \subseteq Account
  /\ scan # None => \A b \in DOMAIN scan.part : scan.part[b].at \in Workers
  /\ files \in [Group -> 0 .. MaxQueued] /\ chained \subseteq Group

(* A row names as owner an account that was told it is a member: whichever
   adapter a worker speaks over, name and listing come from the same account,
   also while the scans of several accounts run beside each other. *)
OwnerListed == \A g \in Group : rows[g].owner # None => g \in listed[rows[g].owner]

(* The set that keeps a group from being chained twice holds no group whose
   file scan has run: its entry has a scan still queued or at the gate, or one that the gate
   refused or a user cancelled before it ran. *)
ChainBacked ==
  \A g \in chained :
    \/ files[g] > 0
    \/ g \in leaked
    \/ file # None /\ file.group = g /\ file.at = "gate"

(* Nothing but the user's own request shows a group again that the user has
   removed: not a scan that resolves its account, not a sweep that finds the
   account alive, not the upsert of a scan that read the row before. *)
NeverRevived ==
  [][\A g \in Group : rows[g].removed /\ ~rows[g].managed /\ rows'[g].managed =>
       asked # None /\ asked.group = g]_vars

(* Hiding is not for ever: the groups of an account that in the end stays
   connected are shown in the end, whatever probes failed, and whichever scan
   and sweep ran beside each other; removed groups, groups it has left, and
   groups that another account shares are not meant. *)
Alone(g) == \E a \in Account : \A b \in Account : g \in member[b] <=> a = b
Meant(g) == rows[g].owner \in up \cap platform /\ g \in member[rows[g].owner] /\ ~rows[g].removed
Shown == \A g \in Group : []Alone(g) /\ <>[]Meant(g) => <>[](rows[g].managed)

(* A call in the scope of an account that has a connection goes over it
   (opctx.py:3-8). *)
Routed == file # None /\ file.want # None => file.by = file.want
=============================================================================
