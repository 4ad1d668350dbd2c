----------------------------- MODULE Dashboard -----------------------------
(***************************************************************************)
(* The dashboard (services/dashboard/app/main.py): one process, one event  *)
(* loop, many requests.  What the templates know of the user is kept in    *)
(* globals that every request overwrites and reads again after it has      *)
(* waited for the API; what the pages manage themselves is kept in one     *)
(* JSON file that handlers read and rewrite without waiting in between.    *)
(* A file that cannot be read counts as an empty one, and a write that     *)
(* fails is passed over: the handler answers as if it had been made.       *)
(*                                                                         *)
(* The file is represented by one list addressed by id (channels, rules,   *)
(* schedules), where an id is the second of its creation, one addressed by *)
(* position and seeded on first use (managers, indexers), the directory of *)
(* users, addressed by email, and one that only grows (feedback, events).  *)
(* The branding is a file of its own.                                      *)
(***************************************************************************)
EXTENDS Naturals, Sequences, FiniteSets, SequencesExt

CONSTANTS Users,        \* users with a session
          Requests,
          MaxSeconds,   \* bound on the clock
          MaxFaults     \* bound on restarts of the process, and on handlers whose reads or
                        \* writes of a file fail (or whose form cannot be serialised)

DashboardAssumption ==
  /\ MaxSeconds \in Nat /\ MaxFaults \in Nat
  /\ IsFiniteSet(Requests) /\ "default" \notin Requests     \* the one for what is seeded

VARIABLES shared,       \* templates.env.globals: whose user, tenant and csrf token; whose count
          request,      \* requests in progress
          page,         \* what the answered GET requests show
          store,        \* dashboard_store.json
          brand,        \* the branding file: who saved it
          sessions,     \* users who have signed in; their cookies stay valid
          added,        \* requests whose entry was accepted (history)
          removed,      \* requests whose entry was deleted, the file saved (history)
          wiped,        \* requests whose entry a fault has lost (history)
          second, faults

file == <<store, added, removed, wiped, faults>>
vars == <<shared, request, page, brand, sessions, second, file>>

Nobody == "nobody"      \* no session
Seed == "default"       \* what the settings or the code begin with
Broken == "broken"      \* a file that was not written to its end
Visitors == Users \cup {Nobody}
NoStore == [list |-> <<>>, managers |-> <<>>, seeded |-> FALSE, users |-> <<>>, log |-> <<>>]
Email == "admin@company.com"      \* of the directory; any other is alike
Changes ==
  [op : {"create", "add", "probe", "forward", "playbook", "rate", "brand", "provision", "flip"}]
  \cup [op : {"toggle", "delete", "update", "test"}, id : 0..MaxSeconds]
  \cup [op : {"drop"}, pos : 1..2] \cup [op : {"login"}, user : Users]

Idle == [at |-> "new"]
Done == [at |-> "done"]
NoPage == [who |-> Nobody, shown |-> FALSE]
Running == {r \in Requests : request[r].at \in {"counting", "handling"}}

TypeOK ==
  /\ shared.of \in Visitors /\ shared.count \in Visitors
  /\ \A r \in Requests : request[r].at \in {"new", "counting", "handling", "done"}
  /\ \A r \in Requests : page[r].shown => page[r].user \in Visitors /\ page[r].token \in Visitors
  /\ store.list \in Seq([id : 0..MaxSeconds, by : Requests, on : BOOLEAN])
  /\ store.managers \in Seq(Requests \cup {Seed}) /\ store.seeded \in BOOLEAN
  /\ store.users \in Seq([email : {Email}, by : Requests \cup {Seed}, on : BOOLEAN])
  /\ store.log \in Seq(Requests)
  /\ brand \in Requests \cup {Seed, Broken} /\ sessions \subseteq Users
  /\ added \subseteq Requests /\ removed \subseteq Requests /\ wiped \subseteq Requests
  /\ second \in 0..MaxSeconds /\ faults \in 0..MaxFaults

Init ==
  /\ shared = [of |-> Nobody, count |-> Nobody]
  /\ request = [r \in Requests |-> Idle]
  /\ page = [r \in Requests |-> NoPage]
  /\ store = NoStore
  /\ brand = Seed /\ sessions \in SUBSET Users
  /\ added = {} /\ removed = {} /\ wiped = {}
  /\ second = 0 /\ faults = 0

-----------------------------------------------------------------------------
(* Defect form: the globals are left alone when there is no session. *)
PublishUsers(who) == IF who = Nobody THEN shared ELSE [of |-> who, count |-> shared.count]
(* add_user_to_template_context: user, tenant and token at once; the count of a visitor is 0. *)
Publish(who) == [of |-> who, count |-> IF who = Nobody THEN Nobody ELSE shared.count]

(* A request enters; its middleware asks the API for the count of a logged-in user. *)
Enter(r, who, rest) ==
  /\ shared' = Publish(who)
  /\ request' = [p \in Requests |->
       IF p = r THEN [at |-> IF who = Nobody THEN "handling" ELSE "counting",
                      who |-> who, alone |-> Running = {}, rest |-> rest]
       ELSE IF p \in Running THEN [request[p] EXCEPT !.alone = FALSE]
       ELSE request[p]]

(* A page, which may name its user itself instead of leaving it to the globals. *)
Get(r, who, explicit) ==
  /\ request[r].at = "new" /\ (explicit => who # Nobody) /\ who \in sessions \cup {Nobody}
  /\ Enter(r, who, [method |-> "get", explicit |-> explicit])
  /\ UNCHANGED <<page, brand, sessions, second, file>>

(* csrf_protection: the token of the page must be that of the session. *)
Post(r, who, from, change) ==
  /\ request[r].at = "new"
  /\ IF who # Nobody /\ page[from].token # who
       THEN request' = [request EXCEPT ![r] = Done] /\ UNCHANGED shared
       ELSE Enter(r, who, [method |-> "post", change |-> change])
  /\ UNCHANGED <<page, brand, sessions, second, file>>

(* The count arrives, or the API fails and it is 0. *)
Count(r) ==
  /\ request[r].at = "counting"
  /\ shared' \in {[shared EXCEPT !.count = w] : w \in {request[r].who, Nobody}}
  /\ request' = [request EXCEPT ![r].at = "handling"]
  /\ UNCHANGED <<page, brand, sessions, second, file>>

(* What a template shows, from the globals or from what its handler names. *)
Shown(q, explicit) ==
  [shown |-> TRUE, who |-> q.who, alone |-> q.alone, user |-> IF explicit THEN q.who ELSE shared.of,
   explicit |-> explicit, token |-> shared.of, count |-> shared.count]

-----------------------------------------------------------------------------
(* The file. *)
EntriesOf(s) ==
  ({e.by : e \in ToSet(s.list)} \cup ToSet(s.managers) \cup ToSet(s.log)
   \cup {u.by : u \in ToSet(s.users)}) \ {Seed}

(* save_store has written the whole file, with these entries more or less. *)
Written(new, entries, deleted) ==
  /\ store' = new /\ added' = added \cup entries /\ removed' = removed \cup deleted
  /\ UNCHANGED <<wiped, faults>>

(* A handler whose reads or writes fail, and which answers all the same.  get_store took the *)
(* file for an empty one, and what was made of that has been written; or the file could not  *)
(* be opened to write; or save_store truncated it and came no further.                       *)
Spoilt(unread, entries) ==
  /\ faults < MaxFaults /\ faults' = faults + 1
  /\ store' \in unread \cup {store, NoStore}
  /\ added' = added \cup entries
  /\ wiped' = wiped \cup ((EntriesOf(store) \cup entries) \ EntriesOf(store'))
  /\ UNCHANGED removed

Write(new, unread, entries, deleted) == Written(new, entries, deleted) \/ Spoilt(unread, entries)

(* get_managers seeds the file. *)
Managers(s) == IF s.seeded THEN s.managers ELSE <<Seed>>
Managed(s, list) == [s EXCEPT !.managers = list, !.seeded = TRUE]
Opened(s) == Managed(s, Managers(s))

(* The directory begins with the users of the code, unless someone is in it. *)
users_directory(s) ==
  IF s.users # <<>> THEN s
  ELSE [s EXCEPT !.users = <<[email |-> Email, by |-> Seed, on |-> TRUE]>>]

(* The handler has its answers from the API and renders.  The pages of the users, of the *)
(* settings and of the reports fill what they find empty in the file; the list of        *)
(* reports is not represented.                                                           *)
Render(r) ==
  LET q == request[r] IN
  /\ q.at = "handling" /\ q.rest.method = "get"
  /\ page' = [page EXCEPT ![r] = Shown(q, q.rest.explicit)]
  /\ request' = [request EXCEPT ![r] = Done]
  /\ \/ UNCHANGED file
     \/ q.who # Nobody /\ q.rest.explicit
        /\ Write(users_directory(store), {users_directory(NoStore)}, {}, {})
     \/ Write(Opened(store), {Opened(NoStore)}, {}, {})
     \/ Write(store, {}, {}, {})
  /\ UNCHANGED <<shared, brand, sessions, second>>

-----------------------------------------------------------------------------
(* The handlers that change the files, each after its form has arrived. *)
Reaches(r, op) ==
  request[r].at = "handling" /\ request[r].rest.method = "post" /\ request[r].rest.change.op = op
Answer(r) ==
  /\ request' = [request EXCEPT ![r] = Done]
  /\ UNCHANGED <<shared, page, sessions, second>>
Saves(r) == Answer(r) /\ UNCHANGED brand
Admin(r) == request[r].who # Nobody
Change(r) == request[r].rest.change

CreateEntry(r) ==
  LET With(s) == [s EXCEPT !.list = Append(@, [id |-> second, by |-> r, on |-> TRUE])] IN
  /\ Reaches(r, "create")
  /\ Write(With(store), {With(NoStore)}, {r}, {})
  /\ Saves(r)

(* A handler that hands its form to the API, whatever that answers, and shows a page or not. *)
Forward(r) ==
  /\ Reaches(r, "forward")
  /\ page' \in {page, [page EXCEPT ![r] = Shown(request[r], FALSE)]}
  /\ request' = [request EXCEPT ![r] = Done]
  /\ UNCHANGED <<shared, brand, sessions, second, file>>

(* The handlers of playbooks send the token of the session along, which the API answers  *)
(* with an error: a toggle finds no playbook to patch, the others have had their effect. *)
ForwardPlaybook(r) == Reaches(r, "playbook") /\ Saves(r) /\ UNCHANGED file

(* test_manager asks the manager at a position, whatever it has become since the page. *)
Probe(r) ==
  /\ Reaches(r, "probe") /\ Admin(r)
  /\ Write(Opened(store), {Opened(NoStore)}, {}, {})
  /\ Saves(r)

(* login_submit: the API knows the user, and the cookie is signed; or it does not. *)
Login(r) ==
  /\ Reaches(r, "login")
  /\ sessions' \in {sessions, sessions \cup {Change(r).user}}
  /\ request' = [request EXCEPT ![r] = Done]
  /\ UNCHANGED <<shared, page, brand, second, file>>

Named(r) == {i \in 1..Len(store.list) : store.list[i].id = Change(r).id}
First(S) == CHOOSE i \in S : \A j \in S : i <= j

(* The first entry with the id; the file is written if there is none, too. *)
ToggleEntry(r) ==
  /\ Reaches(r, "toggle")
  /\ Write(IF Named(r) = {} THEN store ELSE [store EXCEPT !.list[First(Named(r))].on = ~@],
           {}, {}, {})
  /\ Saves(r)

(* update_report_schedule: the first entry with the id is active or not as the form says. *)
UpdateEntry(r) ==
  /\ Reaches(r, "update")
  /\ \E on \in BOOLEAN :
       Write(IF Named(r) = {} THEN store ELSE [store EXCEPT !.list[First(Named(r))].on = on],
             {}, {}, {})
  /\ Saves(r)

(* test_channel: an event for a channel that exists, or that cannot be read and is not found. *)
TestEntry(r) ==
  /\ Reaches(r, "test")
  /\ \/ Named(r) # {} /\ Write([store EXCEPT !.log = <<r>> \o @], {}, {r}, {})
     \/ Named(r) = {} /\ UNCHANGED file
     \/ faults < MaxFaults /\ faults' = faults + 1 /\ UNCHANGED <<store, added, removed, wiped>>
  /\ Saves(r)

(* submit_feedback: the entry stays in the file. *)
RateEntry(r) ==
  LET With(s) == [s EXCEPT !.log = Append(@, r)] IN
  /\ Reaches(r, "rate")
  /\ Write(With(store), {With(NoStore)}, {r}, {})
  /\ Saves(r)

(* What is at these places of a list, in its order: what a deletion leaves. *)
Kept(list, places) ==
  [k \in 1..Cardinality(places) |->
     list[CHOOSE i \in places : Cardinality({j \in places : j <= i}) = k]]

(* Every entry with the id. *)
DeleteEntry(r) ==
  /\ Reaches(r, "delete")
  /\ Write([store EXCEPT !.list = Kept(@, DOMAIN store.list \ Named(r))], {},
           {}, {store.list[i].by : i \in Named(r)})
  /\ Saves(r)

(* save_branding_settings writes its own file, whole, or fails in the same ways. *)
SaveBranding(r) ==
  /\ Reaches(r, "brand")
  /\ \/ brand' = r /\ UNCHANGED faults
     \/ faults < MaxFaults /\ faults' = faults + 1 /\ brand' \in {brand, Broken}
  /\ Answer(r) /\ UNCHANGED <<store, added, removed, wiped>>

(* provision_user: an email that is there already is left as it is; it is not seen to be *)
(* there in a file that cannot be read.                                                  *)
ProvisionUser(r) ==
  LET With(s) == [s EXCEPT !.users = Append(@, [email |-> Email, by |-> r, on |-> TRUE])]
      new == \A u \in ToSet(store.users) : u.email # Email IN
  /\ Reaches(r, "provision") /\ Admin(r)
  /\ \/ new /\ Written(With(store), {r}, {})
     \/ ~new /\ UNCHANGED file
     \/ Spoilt({With(NoStore)}, {r})
  /\ Saves(r)

(* toggle_user; modify_user writes the name and the role alike. *)
FlipUser(r) ==
  LET same == {i \in 1..Len(store.users) : store.users[i].email = Email} IN
  /\ Reaches(r, "flip") /\ Admin(r)
  /\ Write(IF same = {} THEN store ELSE [store EXCEPT !.users[First(same)].on = ~@], {}, {}, {})
  /\ Saves(r)

(* get_managers reads, and seeds; save_managers reads again and writes one of these lists. *)
(* Either may have found no file, and either may have been the last to be written.         *)
Spoilings(lists) ==
  {Opened(s) : s \in {store, NoStore}} \cup {Managed(s, l) : s \in {store, NoStore}, l \in lists}

AddManager(r) ==
  LET With(list) == Append(list, r) IN
  /\ Reaches(r, "add")
  /\ Admin(r)
  /\ Write(Managed(store, With(Managers(store))),
           Spoilings({With(Managers(store)), With(<<Seed>>)}), {r}, {})
  /\ Saves(r)

(* A position that is not in the list leaves it as it is. *)
DeleteManager(r) ==
  LET at == Change(r).pos
      Without(list) == Kept(list, DOMAIN list \ {at}) IN
  /\ Reaches(r, "drop")
  /\ Admin(r)
  /\ Write(Managed(store, Without(Managers(store))),
           Spoilings({Without(l) : l \in {m \in {Managers(store), <<Seed>>} : at \in DOMAIN m}}),
           {}, {Managers(store)[i] : i \in DOMAIN Managers(store) \cap {at}} \ {Seed})
  /\ Saves(r)

(* Only an administrator manages. *)
Forbid(r) ==
  /\ \E op \in {"add", "drop", "probe", "provision", "flip"} : Reaches(r, op)
  /\ ~Admin(r)
  /\ Saves(r) /\ UNCHANGED file

(* The process restarts (if nothing runs, only globals are lost that the next request *)
(* sets anew).  If it was writing, for a form or to seed the file for a page, the file *)
(* has been truncated and the next get_store begins with an empty one.                *)
Restart ==
  /\ Running # {} /\ faults < MaxFaults /\ faults' = faults + 1
  /\ \/ UNCHANGED <<store, wiped>>
     \/ /\ \E r \in Running : request[r].at = "handling"
        /\ store' = NoStore /\ wiped' = wiped \cup EntriesOf(store)
  /\ brand' \in IF \E r \in Running : Reaches(r, "brand") THEN {brand, Broken} ELSE {brand}
  /\ request' = [r \in Requests |-> IF r \in Running THEN Done ELSE request[r]]
  /\ shared' = [of |-> Nobody, count |-> Nobody]
  /\ UNCHANGED <<page, sessions, added, removed, second>>

(* The changes a page can offer: the ids it lists are in the file, or were. *)
Listed ==
  {e.id : e \in ToSet(store.list)} \cup (IF removed \cup wiped # {} THEN 0..second ELSE {})
Offered == {c \in Changes : c.op \in {"toggle", "delete", "update", "test"} => c.id \in Listed}

Tick == second < MaxSeconds /\ second' = second + 1
        /\ UNCHANGED <<shared, request, page, brand, sessions, file>>

Next ==
  \/ \E r \in Requests :
       \/ \E who \in Visitors, explicit \in BOOLEAN : Get(r, who, explicit)
       \/ \E from \in {p \in Requests : page[p].shown}, change \in Offered :
            (change.op = "login" => page[from].who = Nobody)
            /\ Post(r, page[from].who, from, change)
       \/ Count(r) \/ Render(r) \/ CreateEntry(r) \/ ToggleEntry(r) \/ DeleteEntry(r)
       \/ UpdateEntry(r) \/ TestEntry(r) \/ RateEntry(r) \/ ForwardPlaybook(r) \/ Probe(r)
       \/ Login(r) \/ SaveBranding(r) \/ ProvisionUser(r) \/ FlipUser(r)
       \/ Forward(r) \/ AddManager(r) \/ DeleteManager(r) \/ Forbid(r)
  \/ Restart \/ Tick

Spec == Init /\ [][Next]_vars

-----------------------------------------------------------------------------
(* A page is of one piece as far as the shared globals allow: the token on it belongs to  *)
(* the user on it, unless the page names its own; a request that no other overlapped      *)
(* shows its own user, token and count.  And the file holds each accepted entry that no   *)
(* accepted request deleted, whatever requests were waiting at the same time, but those   *)
(* that a read or write that failed in silence or a crash has lost, and each email once   *)
(* (main.py:231-286, 111-228, 1020-1060, 1549-1637).                                      *)
PagesAndFileHold ==
  /\ \A r \in Requests : page[r].shown =>
       /\ page[r].user = page[r].token \/ (page[r].explicit /\ page[r].user = page[r].who)
       /\ page[r].alone => page[r].token = page[r].who /\ page[r].count \in {page[r].who, Nobody}
  /\ EntriesOf(store) = added \ (removed \cup wiped)
  /\ \A i, j \in 1..Len(store.users) : store.users[i].email = store.users[j].email => i = j
=============================================================================
