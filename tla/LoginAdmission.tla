---------------------------- MODULE LoginAdmission ----------------------------
(***************************************************************************)
(* The wrong passwords of each client address are counted in a window, in  *)
(* a table that is bounded (src/src/login-admission.ts), and a client with *)
(* too many is told to wait (handleWebLogin of src/src/http-router.ts).    *)
(* A login is checked, verified and recorded in one synchronous run.       *)
(***************************************************************************)
EXTENDS Integers, Sequences, FiniteSets

CONSTANTS
  Client,             \* addresses passwords come from
  MaxFailures, Window, MaxClients,
  MaxLoginTime        \* bound of the clock

ASSUME LoginAssumption ==
  /\ IsFiniteSet(Client)
  /\ {MaxFailures, Window, MaxClients, MaxLoginTime} \subseteq Nat \ {0}

VARIABLES
  loginTime,
  guesses,     \* failuresByClient: each client's failures, <<>> if it has no entry
  came,        \* the order a Map keeps: <<c, d>> when c has come before d
  toldUntil    \* history: until when a client was told to wait

loginVars == <<loginTime, guesses, came, toldUntil>>

LoginInit ==
  /\ loginTime = 1
  /\ guesses = [c \in Client |-> <<>>]
  /\ came = {}
  /\ toldUntil = [c \in Client |-> 0]

Entries(table) == {c \in Client : table[c] # <<>>}

(* activeFailures: the first failures go until one is inside the window.   *)
Old(at) ==
  CHOOSE n \in 0..Len(at) : /\ \A i \in 1..n : at[i] <= loginTime - Window
                            /\ n < Len(at) => at[n + 1] > loginTime - Window
RecentOf(at) == SubSeq(at, Old(at) + 1, Len(at))
Active(table, clients) == [c \in Client |-> IF c \in clients THEN RecentOf(table[c]) ELSE table[c]]

(* Mutant: the clients that came last make room. *)
FirstOnes(table, n) == {c \in Entries(table) : Cardinality({d \in Entries(table) : <<d, c>> \in came}) < n}

(* The last entries of a table, in the order in which they came. *)
LastOnes(table, n) == {c \in Entries(table) : Cardinality({d \in Entries(table) : <<c, d>> \in came}) < n}
Trimmed(table) ==
  IF Cardinality(Entries(table)) < MaxClients THEN table
  ELSE [c \in Client |-> IF c \in LastOnes(table, MaxClients - 1) THEN table[c] ELSE <<>>]

(* Mutant: clients whose failures are old are not forgotten first. *)
WithRoomUnpruned(table) == Trimmed(table)

(* ensureClientCapacity: the clients that came first make room. *)
WithRoom(table) == Trimmed(Active(table, Client))

Recorded(table, c) ==
  IF table[c] = <<>> THEN [WithRoom(table) EXCEPT ![c] = <<loginTime>>]
  ELSE IF Len(table[c]) < MaxFailures THEN [table EXCEPT ![c] = Append(@, loginTime)]
  ELSE table

(* Clients with failures in the window that came after one leave it no room *)
(* beside a new one.                                                        *)
CrowdedOut(c) ==
  Cardinality({d \in Client : <<c, d>> \in came /\ RecentOf(guesses[d]) # <<>>}) >= MaxClients - 1

Blocked(table, c) == Len(table[c]) >= MaxFailures

(* handleWebLogin once its body is read: check, verify and record. An      *)
(* entry that is made anew comes last.                                     *)
Login(c, right) ==
  LET seen == Active(guesses, {c})
      stays == Entries(seen) \intersect Entries(guesses')
      new == Entries(guesses') \ Entries(seen)
  IN /\ \/ /\ Blocked(seen, c)
           /\ guesses' = seen
           /\ toldUntil' = [toldUntil EXCEPT ![c] = Head(seen[c]) + Window]
        \/ /\ ~Blocked(seen, c)
           /\ guesses' = IF right THEN [seen EXCEPT ![c] = <<>>] ELSE Recorded(seen, c)
           /\ toldUntil' = [d \in Client |->
                IF (right /\ d = c) \/ (~right /\ guesses'[d] = <<>> /\ CrowdedOut(d)) THEN 0 ELSE toldUntil[d]]
     /\ came' = {p \in came : p[1] \in stays /\ p[2] \in stays} \union (stays \X new)
     /\ UNCHANGED loginTime

LoginTimePasses ==
  /\ loginTime < MaxLoginTime
  /\ loginTime' = loginTime + 1
  /\ UNCHANGED <<guesses, came, toldUntil>>

LoginNext == (\E c \in Client, right \in BOOLEAN : Login(c, right)) \/ LoginTimePasses

LoginSpec == LoginInit /\ [][LoginNext]_loginVars

---------------------------------------------------------------------------
(* A client that was told to wait is blocked until then, whoever else      *)
(* fails, unless it signed in, or a new client came while all the room but *)
(* its own was of clients still inside the window that had come after it:  *)
(* no client that came later, and none whose failures are old, stays where *)
(* it is forgotten (login-admission.ts:28-39, 79-91).                      *)
BlockedUntilTold ==
  \A c \in Client : loginTime < toldUntil[c] => Blocked(Active(guesses, {c}), c)
=============================================================================
