---------------------------- MODULE RouteTable ----------------------------
(***************************************************************************)
(* What the static-route service of the management plane promises its      *)
(* clients: one table from route keys to lists of gateways, changed only   *)
(* by requests that are outstanding, one key at a time.  A new route       *)
(* appears whole; an existing one is replaced gateway by gateway; and a    *)
(* request is answered with success only after all of its effect is in     *)
(* the table.  Northbound implements this over three object types.         *)
(***************************************************************************)
EXTENDS Integers, Sequences

CONSTANTS Sessions,   \* clients
          Requests,   \* [key, gws]: the gateways a key must get (<< >>: withdraw it)
          NoCall      \* a session with no outstanding route request

VARIABLES table,      \* installed routes: a partial function, key -> gateways
          asked,      \* the outstanding request of each session
          done,       \* how much of it is in the table
          answer      \* the answer to the session's last request

vars == <<table, asked, done, answer>>

Init ==
  /\ table = << >>
  /\ asked = [s \in Sessions |-> NoCall]
  /\ done = [s \in Sessions |-> 0]
  /\ answer = [s \in Sessions |-> "none"]

Submit(s) ==
  /\ asked[s] = NoCall
  /\ \E r \in Requests : asked' = [asked EXCEPT ![s] = r]
  /\ answer' = [answer EXCEPT ![s] = "none"]
  /\ UNCHANGED <<table, done>>

\* The route appears with exactly the gateways asked for.
Install(s) ==
  LET r == asked[s] IN
  /\ r # NoCall /\ r.gws # << >> /\ done[s] = 0
  /\ r.key \notin DOMAIN table
  /\ table' = [k \in DOMAIN table \cup {r.key} |->
                 IF k = r.key THEN r.gws ELSE table[k]]
  /\ done' = [done EXCEPT ![s] = Len(r.gws)]
  /\ UNCHANGED <<asked, answer>>

\* The next gateway of an installed route is replaced.  A request with one
\* gateway changes the first of however many the route has.
Replace(s) ==
  LET r == asked[s]
      i == done[s] + 1
  IN
  /\ r # NoCall /\ i \in DOMAIN r.gws
  /\ r.key \in DOMAIN table /\ i \in DOMAIN table[r.key]
  /\ table' = [table EXCEPT ![r.key][i] = r.gws[i]]
  /\ done' = [done EXCEPT ![s] = i]
  /\ UNCHANGED <<asked, answer>>

Withdraw(s) ==
  LET r == asked[s] IN
  /\ r # NoCall /\ r.gws = << >> /\ done[s] = 0
  /\ r.key \in DOMAIN table
  /\ table' = [k \in DOMAIN table \ {r.key} |-> table[k]]
  /\ done' = [done EXCEPT ![s] = 1]
  /\ UNCHANGED <<asked, answer>>

\* Success: everything asked for was done, or a withdrawal found no route.
Succeed(s) ==
  LET r == asked[s] IN
  /\ r # NoCall
  /\ \/ r.gws # << >> /\ done[s] = Len(r.gws)
     \/ r.gws = << >> /\ (done[s] = 1 \/ r.key \notin DOMAIN table)
  /\ asked' = [asked EXCEPT ![s] = NoCall]
  /\ done' = [done EXCEPT ![s] = 0]
  /\ answer' = [answer EXCEPT ![s] = "ok"]
  /\ UNCHANGED table

\* Failure may leave a part of the effect behind: an abort undoes nothing.
Refuse(s) ==
  /\ asked[s] # NoCall
  /\ asked' = [asked EXCEPT ![s] = NoCall]
  /\ done' = [done EXCEPT ![s] = 0]
  /\ answer' = [answer EXCEPT ![s] = "error"]
  /\ UNCHANGED table

Next == \E s \in Sessions :
  \/ Submit(s) \/ Install(s) \/ Replace(s) \/ Withdraw(s) \/ Succeed(s) \/ Refuse(s)

Spec == Init /\ [][Next]_vars
=============================================================================
