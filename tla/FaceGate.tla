------------------------------ MODULE FaceGate ------------------------------
(***************************************************************************)
(* What the compare server promises to the gates, whatever its threads,    *)
(* engines and locks do: between a request and its answer there is one     *)
(* moment at which the request takes effect, on the users and the guests   *)
(* known at that moment.  FaceServer is shown to implement this.           *)
(***************************************************************************)
EXTENDS Naturals, Sequences

CONSTANTS Threads, Models, NoModel, Unreadable, Requests

VARIABLES
  users,            \* list of the users as loaded when the process started
  guests,           \* list of the guests added since
  UserInformation,  \* the features of the registered users
  UserImport,       \* who was let in: <<UserID, UserType>>
  connected,        \* whether the tables can be reached
  reliable,         \* every face engine could be started
  asked,            \* the request a thread works on, or NoRequest
  answer            \* its answer: "none" (not decided), "ok" or "no"

gateVars ==
  <<users, guests, UserInformation, UserImport, connected, reliable, asked, answer>>

ElementsOf(list) == {list[i] : i \in DOMAIN list}

\* The users known to a process: all those with a stored feature, or none when
\* the tables cannot be read.
Loaded(list, table, up) ==
  \/ list = <<>>
  \/ /\ up
     /\ ElementsOf(list) =
          {[id |-> i, model |-> table[i]] : i \in {j \in DOMAIN table : table[j] # NoModel}}
     /\ \A i, j \in DOMAIN list : list[i] = list[j] => i = j

NoRequest == [kind |-> "none"]

NothingAsked ==
  /\ asked = [t \in Threads |-> NoRequest]
  /\ answer = [t \in Threads |-> "none"]

GateInit ==
  /\ connected \in BOOLEAN
  /\ Loaded(users, UserInformation, connected)
  /\ guests = <<>>
  /\ UserImport = <<>>
  /\ reliable \in BOOLEAN
  /\ NothingAsked

Ask(t, r) ==
  /\ asked[t] = NoRequest
  /\ asked' = [asked EXCEPT ![t] = r]
  /\ UNCHANGED <<users, guests, UserInformation, UserImport, connected, reliable, answer>>

Answer(t) ==
  /\ answer[t] # "none"
  /\ asked' = [asked EXCEPT ![t] = NoRequest]
  /\ answer' = [answer EXCEPT ![t] = "none"]
  /\ UNCHANGED <<users, guests, UserInformation, UserImport, connected, reliable>>

-----------------------------------------------------------------------------
(***************************************************************************)
(* The features that a readable picture may be taken to show: its own with *)
(* engines that work; none, which may match anybody, for a picture without *)
(* one clear face or on an engine that did not start.                      *)
(***************************************************************************)
Shown(pic) ==
  ({pic} \cap Models) \cup (IF pic \in Models /\ reliable THEN {} ELSE {NoModel})

MayMatch(m, f) == f \in {NoModel, m}
MustMatch(list, f) == \E x \in ElementsOf(list) : x.model = f

Undecided(t, kinds) ==
  /\ answer[t] = "none"
  /\ asked[t].kind \in kinds

Decide(t, a) ==
  /\ answer' = [answer EXCEPT ![t] = a]
  /\ UNCHANGED <<users, connected, reliable, asked>>

LetIn(x, type) ==
  /\ UserImport' = IF connected THEN Append(UserImport, <<x.id, type>>) ELSE UserImport
  /\ UNCHANGED <<guests, UserInformation>>

LetUserIn(t) ==
  /\ Undecided(t, {"comp"})
  /\ asked[t].pic # Unreadable
  /\ \E f \in Shown(asked[t].pic), u \in ElementsOf(users) :
       MayMatch(u.model, f) /\ LetIn(u, 1)
  /\ Decide(t, "ok")

\* Only when no user matches are the guests asked.
LetGuestIn(t) ==
  /\ Undecided(t, {"comp"})
  /\ asked[t].pic # Unreadable
  /\ \E f \in Shown(asked[t].pic), g \in ElementsOf(guests) :
       /\ ~MustMatch(users, f)
       /\ MayMatch(g.model, f)
       /\ LetIn(g, 2)
  /\ Decide(t, "ok")

TurnAway(t) ==
  /\ Undecided(t, {"comp"})
  /\ \/ asked[t].pic = Unreadable
     \/ \E f \in Shown(asked[t].pic) : ~MustMatch(users, f) /\ ~MustMatch(guests, f)
  /\ Decide(t, "no")
  /\ UNCHANGED <<guests, UserInformation, UserImport>>

\* "ok" whether or not the feature could be stored.
AddUser(t) ==
  /\ Undecided(t, {"addu"})
  /\ \E f \in Shown(asked[t].pic) \ {NoModel} :
       UserInformation' =
         IF connected /\ asked[t].id \in DOMAIN UserInformation
         THEN [UserInformation EXCEPT ![asked[t].id] = f] ELSE UserInformation
  /\ Decide(t, "ok")
  /\ UNCHANGED <<guests, UserImport>>

AddGuest(t) ==
  /\ Undecided(t, {"addg"})
  /\ \E f \in Shown(asked[t].pic) \ {NoModel} :
       guests' = Append(guests, [id |-> asked[t].id, model |-> f])
  /\ Decide(t, "ok")
  /\ UNCHANGED <<UserInformation, UserImport>>

RefuseToAdd(t) ==
  /\ Undecided(t, {"addu", "addg"})
  /\ asked[t].pic = Unreadable \/ NoModel \in Shown(asked[t].pic)
  /\ Decide(t, "no")
  /\ UNCHANGED <<guests, UserInformation, UserImport>>

-----------------------------------------------------------------------------
Disconnect ==
  /\ connected' = FALSE
  /\ UNCHANGED <<users, guests, UserInformation, UserImport, reliable, asked, answer>>

\* A crash loses the guests and what was being worked on, not the tables.
Reboot ==
  /\ connected' \in BOOLEAN
  /\ Loaded(users', UserInformation, connected')
  /\ guests' = <<>>
  /\ reliable' \in BOOLEAN
  /\ NothingAsked'
  /\ UNCHANGED <<UserInformation, UserImport>>

GateNext ==
  \/ \E t \in Threads :
       \/ \E r \in Requests : Ask(t, r)
       \/ LetUserIn(t) \/ LetGuestIn(t) \/ TurnAway(t)
       \/ AddUser(t) \/ AddGuest(t) \/ RefuseToAdd(t)
       \/ Answer(t)
  \/ Disconnect
  \/ Reboot

GateSpec == GateInit /\ [][GateNext]_gateVars
=============================================================================
