--------------------------- MODULE Polling_proofs ---------------------------
(* The SDK's waits, for all intervals, timeouts and refusals: a wait with  *)
(* a timeout returns in time, a timeout misses nothing, and "not found"    *)
(* means that the server has forgotten.                                    *)
EXTENDS Polling, TLAPS

Waits == {"accept", "response"}

(* Where the agent stands in its loop. *)
LoopInv ==
    /\ life \in Int /\ poll \in Int /\ timeout \in Int
    /\ call = "none" => elapsed = 0 /\ timer = 0
    /\ answer # None => pc = "request"
    /\ call \in Waits =>
          /\ poll \in Polls \cup {ResponsePoll, AcceptPoll} /\ poll > 0
          /\ timeout \in Timeouts \cup {AcceptTimeout}
          /\ call = "accept" => timeout > 0
    /\ pc = "sleep" => call \in Waits
    /\ pc = "request" => timer <= HttpTimeout
    /\ Timed /\ pc = "sleep" => elapsed + timer < timeout + poll
    /\ Timed /\ pc = "request" => elapsed + timer < timeout + poll + HttpTimeout

(* The sleeps and HTTP calls fit under the bound. *)
LEMMA Bounds ==
  /\ HttpTimeout \in Nat \ {0} /\ ResponsePoll \in Nat \ {0} /\ AcceptPoll \in Nat \ {0}
  /\ AcceptTimeout \in Nat \ {0} /\ MaxElapsed \in Nat /\ HttpTimeout <= MaxElapsed
  /\ Lives \subseteq Int /\ Polls \subseteq Int /\ Timeouts \subseteq Int
  /\ \A p \in Polls \cup {ResponsePoll, AcceptPoll} : p \in Int /\ p <= MaxElapsed
  /\ \A t \in Timeouts \cup {AcceptTimeout}, p \in Polls \cup {ResponsePoll, AcceptPoll} :
        t + p + HttpTimeout <= MaxElapsed
<1>1. \A p \in Polls \cup {ResponsePoll, AcceptPoll} : p \in Int
  BY PollingAssumption
<1>2. \A p \in Polls \cup {ResponsePoll, AcceptPoll} :
        AcceptTimeout + p + HttpTimeout <= MaxElapsed
  BY PollingAssumption
<1>3. AcceptTimeout + AcceptPoll + HttpTimeout <= MaxElapsed
  BY <1>2
<1> QED
  BY <1>1, <1>2, <1>3, PollingAssumption

(* None is nothing else. *)
LEMMA NoneIsNone ==
  /\ None \notin Int /\ None \notin KnockStates /\ None \notin RequestStates
  /\ None \notin Replies
  BY PollingAssumption

(* The codes of refusals. *)
LEMMA RefusalCodes == \A c \in Refusals : c \in Int /\ c >= 300 /\ c # 404
  BY PollingAssumption

(* The types and the loop hold at first. *)
LEMMA InitLoop == Init => TypeOK /\ LoopInv
<1> SUFFICES ASSUME Init PROVE TypeOK /\ LoopInv
  OBVIOUS
<1>1. result = [is |-> "value", of |-> "none"]
  BY DEF Init, Value
<1>2. TypeOK
  <2>1. 0 \in 0..MaxElapsed /\ 0 \in 0..HttpTimeout + 1
    BY Bounds
  <2>2. autoAccept \in BOOLEAN /\ known \in BOOLEAN /\ forgot \in BOOLEAN
    BY DEF Init
  <2>3. left \in Int \cup {None} /\ (left # None => left >= -1)
    BY DEF Init
  <2>4. result.is \in {"value", "error"}
    BY <1>1
  <2> QED
    BY <2>1, <2>2, <2>3, <2>4 DEF Init, TypeOK
<1>3. LoopInv
  BY NoneIsNone DEF Init, LoopInv, Timed, Waits
<1> QED
  BY <1>2, <1>3

(* Every step keeps the types and the loop. *)
LEMMA NextLoop == TypeOK /\ LoopInv /\ [Next]_vars => TypeOK' /\ LoopInv'
<1> SUFFICES ASSUME TypeOK, LoopInv, [Next]_vars PROVE TypeOK' /\ LoopInv'
  OBVIOUS
<1> USE Bounds, NoneIsNone
<1>1. ASSUME NEW l \in Lives, CreateRequest(l)
      PROVE  TypeOK' /\ LoopInv'
  BY <1>1 DEF CreateRequest, Begin, Request, server, args, TypeOK, LoopInv, Timed, Waits, Value, Error, Replies, KnockStates, RequestStates, Terminal
<1>2. ASSUME NEW p \in Polls, NEW t \in Timeouts, WaitForResponse(p, t)
      PROVE  TypeOK' /\ LoopInv'
  BY <1>2 DEF WaitForResponse, Begin, Request, server, args, TypeOK, LoopInv, Timed, Waits, Value, Error, Replies, KnockStates, RequestStates, Terminal
<1>3. ASSUME NEW p \in Polls, NEW t \in Timeouts, WaitForAcceptance(p, t)
      PROVE  TypeOK' /\ LoopInv'
  BY <1>3 DEF WaitForAcceptance, Begin, Request, server, args, TypeOK, LoopInv, Timed, Waits, Value, Error, Replies, KnockStates, RequestStates, Terminal
<1>4. ASSUME ServeKnockStatus
      PROVE  TypeOK' /\ LoopInv'
  BY <1>4 DEF ServeKnockStatus, Serving, Reply, Unchanged, server, args, TypeOK, LoopInv, Timed, Waits, Value, Error, Replies, KnockStates, RequestStates, Terminal
<1>5. ASSUME ServeCreate
      PROVE  TypeOK' /\ LoopInv'
  <2>1. TypeOK'
    <3>1. knock' \in KnockStates \cup {None}
      BY <1>5 DEF ServeCreate, TypeOK, KnockStates
    <3>2. status' \in {"pending", "held"}
      BY <1>5 DEF ServeCreate
    <3>3. answer' \in Replies
      BY <1>5, <3>2 DEF ServeCreate, Reply, Replies, RequestStates
    <3>4. left' \in Int \cup {None} /\ (left' # None => left' >= -1)
      BY <1>5 DEF ServeCreate, LoopInv
    <3>5. forgot' \in BOOLEAN
      BY <1>5 DEF ServeCreate
    <3> QED
      BY <1>5, <3>1, <3>2, <3>3, <3>4, <3>5 DEF ServeCreate, TypeOK, RequestStates
  <2>2. LoopInv'
    BY <1>5 DEF ServeCreate, Serving, Reply, args, LoopInv, Timed, Waits
  <2> QED
    BY <2>1, <2>2
<1>6. ASSUME ServeGet
      PROVE  TypeOK' /\ LoopInv'
  BY <1>6 DEF ServeGet, Serving, Reply, Unchanged, server, args, TypeOK, LoopInv, Timed, Waits, Value, Error, Replies, KnockStates, RequestStates, Terminal
<1>7. ASSUME NEW code \in Refusals, Refuse(code)
      PROVE  TypeOK' /\ LoopInv'
  BY <1>7 DEF Refuse, Reply, Unchanged, server, args, TypeOK, LoopInv, Timed, Waits, Value, Error, Replies, KnockStates, RequestStates, Terminal
<1>8. ASSUME ReceiveError
      PROVE  TypeOK' /\ LoopInv'
  BY <1>8 DEF ReceiveError, Return, server, args, TypeOK, LoopInv, Timed, Waits, Value, Error, Replies, KnockStates, RequestStates, Terminal
<1>9. ASSUME ReceiveCreated
      PROVE  TypeOK' /\ LoopInv'
  BY <1>9 DEF ReceiveCreated, Received, Return, server, args, TypeOK, LoopInv, Timed, Waits, Value, Error, Replies, KnockStates, RequestStates, Terminal
<1>10. ASSUME NEW f \in {"accept", "response"}, ReceiveStatus(f)
       PROVE  TypeOK' /\ LoopInv'
  <2>1. CASE /\ answer.status \in Ends(f)
             /\ Return(Value(answer.status)) /\ UNCHANGED known
    BY <2>1 DEF Return, server, args, TypeOK, LoopInv, Timed, Waits, Value
  <2>2. CASE TimedOut /\ Return(Error("timeout")) /\ UNCHANGED known
    BY <2>2 DEF Return, server, args, TypeOK, LoopInv, Timed, Waits, Error
  <2>3. CASE Received(f) /\ ~TimedOut /\ Sleep
    <3>1. /\ call = f /\ pc = "request" /\ timer' = poll /\ pc' = "sleep" /\ answer' = None
          /\ UNCHANGED <<server, call, args, elapsed, result, known, over, forgot>>
      BY <2>3 DEF Received, Sleep
    <3>2. Timed => elapsed < timeout
      BY <2>3 DEF Timed, TimedOut, TypeOK, LoopInv
    <3>3. poll \in 0..MaxElapsed
      BY <3>1 DEF LoopInv, Waits
    <3>4. TypeOK'
      BY <3>1, <3>3 DEF server, args, TypeOK
    <3>5. Timed' <=> Timed
      BY <3>1 DEF args, Timed
    <3> QED
      BY <3>1, <3>2, <3>4, <3>5 DEF args, TypeOK, LoopInv, Waits
  <2> QED
    BY <1>10, <2>1, <2>2, <2>3 DEF ReceiveStatus
<1>11. ASSUME Wake
       PROVE  TypeOK' /\ LoopInv'
  BY <1>11 DEF Wake, Request, server, args, TypeOK, LoopInv, Timed, Waits, Value, Error, Replies, KnockStates, RequestStates, Terminal
<1>12. ASSUME Lose
       PROVE  TypeOK' /\ LoopInv'
  BY <1>12 DEF Lose, Return, server, args, TypeOK, LoopInv, Timed, Waits, Value, Error, Replies, KnockStates, RequestStates, Terminal
<1>13. ASSUME View
       PROVE  TypeOK' /\ LoopInv'
  BY <1>13 DEF View, Bystander, server, args, TypeOK, LoopInv, Timed, Waits, Value, Error, Replies, KnockStates, RequestStates, Terminal
<1>14. ASSUME Finish
       PROVE  TypeOK' /\ LoopInv'
  BY <1>14 DEF Finish, Bystander, server, args, TypeOK, LoopInv, Timed, Waits, Value, Error, Replies, KnockStates, RequestStates, Terminal
<1>15. ASSUME NEW v \in {"pending", "active", "blocked"}, Admin(v)
       PROVE  TypeOK' /\ LoopInv'
  BY <1>15 DEF Admin, Bystander, server, args, TypeOK, LoopInv, Timed, Waits, Value, Error, Replies, KnockStates, RequestStates, Terminal
<1>16. ASSUME Restart
       PROVE  TypeOK' /\ LoopInv'
  BY <1>16 DEF Restart, Bystander, server, args, TypeOK, LoopInv, Timed, Waits, Value, Error, Replies, KnockStates, RequestStates, Terminal
<1>17. ASSUME Tick
       PROVE  TypeOK' /\ LoopInv'
  <2>1. elapsed' \in 0..MaxElapsed
    <3>1. elapsed \in Nat /\ timer \in Nat /\ (pc # "none" => timer > 0)
      BY <1>17 DEF Tick, TypeOK
    <3>2. CASE Timed
      <4>1. /\ call \in Waits /\ pc \in {"request", "sleep"}
            /\ elapsed + timer < timeout + poll + HttpTimeout
        BY <3>1, <3>2 DEF Timed, Waits, TypeOK, LoopInv
      <4>2. timeout + poll + HttpTimeout <= MaxElapsed /\ timeout + poll + HttpTimeout \in Int
        BY <4>1 DEF LoopInv
      <4>3. elapsed' = elapsed + 1
        BY <1>17, <3>2 DEF Tick
      <4> QED
        BY <3>1, <4>1, <4>2, <4>3
    <3>3. CASE ~Timed
      BY <1>17, <3>3 DEF Tick, TypeOK
    <3> QED
      BY <3>2, <3>3
  <2>2. timer' \in 0..MaxElapsed /\ (pc = "none" => timer' = 0) /\ (pc # "none" => timer' = timer - 1)
    BY <1>17 DEF Tick, TypeOK
  <2>3. TypeOK'
    <3>1. left' \in Int \cup {None} /\ (left' # None => left' >= -1)
      BY <1>17 DEF Tick, TypeOK
    <3>2. over' \in 0..HttpTimeout + 1
      BY <1>17 DEF Tick, TypeOK
    <3> QED
      BY <1>17, <2>1, <2>2, <3>1, <3>2 DEF Tick, TypeOK
  <2>4. LoopInv'
    <3>1. elapsed' = IF Timed THEN elapsed + 1 ELSE elapsed
      BY <1>17 DEF Tick
    <3>2. UNCHANGED <<call, pc, args, answer>>
      BY <1>17 DEF Tick
    <3>3. Timed' <=> Timed
      BY <3>2 DEF Timed, args
    <3>4. timer \in Nat /\ elapsed \in Nat /\ timeout \in Int /\ poll \in Int
      BY DEF TypeOK, LoopInv
    <3>5. call = "none" => elapsed' = 0 /\ timer' = 0
      BY <2>2, <3>1 DEF LoopInv, Timed, TypeOK
    <3>6. pc = "request" => timer' <= HttpTimeout
      BY <2>2, <3>4 DEF LoopInv
    <3>7. Timed /\ pc = "sleep" => elapsed' + timer' < timeout + poll
      BY <2>2, <3>1, <3>4 DEF LoopInv
    <3>8. Timed /\ pc = "request" => elapsed' + timer' < timeout + poll + HttpTimeout
      BY <2>2, <3>1, <3>4 DEF LoopInv
    <3> QED
      BY <3>2, <3>3, <3>5, <3>6, <3>7, <3>8 DEF LoopInv, args
  <2> QED
    BY <2>3, <2>4
<1>18. ASSUME UNCHANGED vars
       PROVE  TypeOK' /\ LoopInv'
  BY <1>18 DEF vars, server, args, TypeOK, LoopInv, Timed, Waits, Value, Error, Replies, KnockStates, RequestStates, Terminal
<1> QED
  BY <1>1, <1>2, <1>3, <1>4, <1>5, <1>6, <1>7, <1>8, <1>9,
     <1>10, <1>11, <1>12, <1>13, <1>14, <1>15, <1>16, <1>17, <1>18
     DEF Next, Calls, Serve, Receive, Others

-----------------------------------------------------------------------------
(* "Not found" means forgotten.                                            *)

(* Who knows an id, or is being told it, has it from a server that still   *)
(* has the request or has forgotten it.                                    *)
MemoryInv ==
    /\ known /\ status = None => forgot
    /\ call = "response" => known
    /\ call = "create" /\ answer # None /\ status = None =>
          forgot \/ answer.code \notin 200..299
    /\ answer # None /\ answer.code = 404 => forgot /\ call = "response"

(* Every step keeps it: the creation is the only one to forget a restart.  *)
LEMMA NextMemory == TypeOK /\ LoopInv /\ MemoryInv /\ [Next]_vars => MemoryInv'
<1> SUFFICES ASSUME TypeOK, LoopInv, MemoryInv, [Next]_vars PROVE MemoryInv'
  OBVIOUS
<1> USE NoneIsNone, RefusalCodes
<1>1. ASSUME NEW l \in Lives, CreateRequest(l)
      PROVE  MemoryInv'
  BY <1>1 DEF CreateRequest, Begin, Request, server, args, TypeOK, LoopInv, MemoryInv, Waits, Replies, KnockStates, RequestStates, Terminal
<1>2. ASSUME NEW p \in Polls, NEW t \in Timeouts, WaitForResponse(p, t)
      PROVE  MemoryInv'
  BY <1>2 DEF WaitForResponse, Begin, Request, server, args, TypeOK, LoopInv, MemoryInv, Waits, Replies, KnockStates, RequestStates, Terminal
<1>3. ASSUME NEW p \in Polls, NEW t \in Timeouts, WaitForAcceptance(p, t)
      PROVE  MemoryInv'
  BY <1>3 DEF WaitForAcceptance, Begin, Request, server, args, TypeOK, LoopInv, MemoryInv, Waits, Replies, KnockStates, RequestStates, Terminal
<1>4. ASSUME ServeKnockStatus
      PROVE  MemoryInv'
  BY <1>4 DEF ServeKnockStatus, Serving, Reply, Unchanged, server, args, TypeOK, LoopInv, MemoryInv, Waits, Replies, KnockStates, RequestStates, Terminal
<1>5. ASSUME ServeCreate
      PROVE  MemoryInv'
  BY <1>5 DEF ServeCreate, Serving, Reply, server, args, TypeOK, LoopInv, MemoryInv, Waits, Replies, KnockStates, RequestStates, Terminal
<1>6. ASSUME ServeGet
      PROVE  MemoryInv'
  BY <1>6 DEF ServeGet, Serving, Reply, Unchanged, server, args, TypeOK, LoopInv, MemoryInv, Waits, Replies, KnockStates, RequestStates, Terminal
<1>7. ASSUME NEW code \in Refusals, Refuse(code)
      PROVE  MemoryInv'
  BY <1>7 DEF Refuse, Reply, Unchanged, server, args, TypeOK, LoopInv, MemoryInv, Waits, Replies, KnockStates, RequestStates, Terminal
<1>8. ASSUME ReceiveError
      PROVE  MemoryInv'
  BY <1>8 DEF ReceiveError, Return, server, args, TypeOK, LoopInv, MemoryInv, Waits, Replies, KnockStates, RequestStates, Terminal
<1>9. ASSUME ReceiveCreated
      PROVE  MemoryInv'
  BY <1>9 DEF ReceiveCreated, Received, Return, server, args, TypeOK, LoopInv, MemoryInv, Waits, Replies, KnockStates, RequestStates, Terminal
<1>10. ASSUME NEW f \in {"accept", "response"}, ReceiveStatus(f)
       PROVE  MemoryInv'
  BY <1>10 DEF ReceiveStatus, Received, Return, Sleep, server, args, TypeOK, LoopInv, MemoryInv, Waits, Replies, KnockStates, RequestStates, Terminal
<1>11. ASSUME Wake
       PROVE  MemoryInv'
  BY <1>11 DEF Wake, Request, server, args, TypeOK, LoopInv, MemoryInv, Waits, Replies, KnockStates, RequestStates, Terminal
<1>12. ASSUME Lose
       PROVE  MemoryInv'
  BY <1>12 DEF Lose, Return, server, args, TypeOK, LoopInv, MemoryInv, Waits, Replies, KnockStates, RequestStates, Terminal
<1>13. ASSUME View
       PROVE  MemoryInv'
  BY <1>13 DEF View, Bystander, server, args, TypeOK, LoopInv, MemoryInv, Waits, Replies, KnockStates, RequestStates, Terminal
<1>14. ASSUME Finish
       PROVE  MemoryInv'
  BY <1>14 DEF Finish, Bystander, server, args, TypeOK, LoopInv, MemoryInv, Waits, Replies, KnockStates, RequestStates, Terminal
<1>15. ASSUME NEW v \in {"pending", "active", "blocked"}, Admin(v)
       PROVE  MemoryInv'
  BY <1>15 DEF Admin, Bystander, server, args, TypeOK, LoopInv, MemoryInv, Waits, Replies, KnockStates, RequestStates, Terminal
<1>16. ASSUME Restart
       PROVE  MemoryInv'
  <2>1. status # None => forgot'
    BY <1>16 DEF Restart
  <2>2. forgot => forgot'
    BY <1>16 DEF Restart
  <2>3. /\ status' = None /\ call' = call /\ answer' = answer /\ known' = known
    BY <1>16 DEF Restart, Bystander
  <2> QED
    BY <2>1, <2>2, <2>3 DEF MemoryInv
<1>17. ASSUME Tick
       PROVE  MemoryInv'
  BY <1>17 DEF Tick, server, args, TypeOK, LoopInv, MemoryInv, Waits, Replies, KnockStates, RequestStates, Terminal
<1>18. ASSUME UNCHANGED vars
       PROVE  MemoryInv'
  BY <1>18 DEF vars, server, args, TypeOK, LoopInv, MemoryInv, Waits, Replies, KnockStates, RequestStates, Terminal
<1> QED
  BY <1>1, <1>2, <1>3, <1>4, <1>5, <1>6, <1>7, <1>8, <1>9,
     <1>10, <1>11, <1>12, <1>13, <1>14, <1>15, <1>16, <1>17, <1>18
     DEF Next, Calls, Serve, Receive, Others

-----------------------------------------------------------------------------
(* A timeout misses nothing.                                               *)

(* While the wait could end, the time for which it could have is counted;  *)
(* a reply that does not end it was made before that time began.           *)
OverInv ==
    /\ over > 0 => CouldEnd
    /\ /\ call \in Waits /\ answer # None
       /\ answer.code \in 200..299 /\ answer.status \notin Ends(call)
       => over + timer <= HttpTimeout

(* Every step keeps it. *)
LEMMA NextOver == TypeOK /\ LoopInv /\ OverInv /\ [Next]_vars => OverInv'
<1> SUFFICES ASSUME TypeOK, LoopInv, OverInv, [Next]_vars PROVE OverInv'
  OBVIOUS
<1> USE Bounds, NoneIsNone, RefusalCodes
<1>1. ASSUME NEW l \in Lives, CreateRequest(l)
      PROVE  OverInv'
  BY <1>1 DEF CreateRequest, Begin, Request, server, args, TypeOK, LoopInv, OverInv, CouldEnd, Expired, Ends, KnockStates, RequestStates, Terminal, Waits
<1>2. ASSUME NEW p \in Polls, NEW t \in Timeouts, WaitForResponse(p, t)
      PROVE  OverInv'
  BY <1>2 DEF WaitForResponse, Begin, Request, server, args, TypeOK, LoopInv, OverInv, CouldEnd, Expired, Ends, KnockStates, RequestStates, Terminal, Waits
<1>3. ASSUME NEW p \in Polls, NEW t \in Timeouts, WaitForAcceptance(p, t)
      PROVE  OverInv'
  BY <1>3 DEF WaitForAcceptance, Begin, Request, server, args, TypeOK, LoopInv, OverInv, CouldEnd, Expired, Ends, KnockStates, RequestStates, Terminal, Waits
<1>4. ASSUME ServeKnockStatus
      PROVE  OverInv'
  BY <1>4 DEF ServeKnockStatus, Serving, Reply, Unchanged, server, args, TypeOK, LoopInv, OverInv, CouldEnd, Expired, Ends, KnockStates, RequestStates, Terminal, Waits
<1>5. ASSUME ServeCreate
      PROVE  OverInv'
  BY <1>5 DEF ServeCreate, Serving, Reply, server, args, TypeOK, LoopInv, OverInv, CouldEnd, Expired, Ends, KnockStates, RequestStates, Terminal, Waits
<1>6. ASSUME ServeGet
      PROVE  OverInv'
  BY <1>6 DEF ServeGet, Serving, Reply, Unchanged, server, args, TypeOK, LoopInv, OverInv, CouldEnd, Expired, Ends, KnockStates, RequestStates, Terminal, Waits
<1>7. ASSUME NEW code \in Refusals, Refuse(code)
      PROVE  OverInv'
  BY <1>7 DEF Refuse, Reply, Unchanged, server, args, TypeOK, LoopInv, OverInv, CouldEnd, Expired, Ends, KnockStates, RequestStates, Terminal, Waits
<1>8. ASSUME ReceiveError
      PROVE  OverInv'
  BY <1>8 DEF ReceiveError, Return, server, args, TypeOK, LoopInv, OverInv, CouldEnd, Expired, Ends, KnockStates, RequestStates, Terminal, Waits
<1>9. ASSUME ReceiveCreated
      PROVE  OverInv'
  BY <1>9 DEF ReceiveCreated, Received, Return, server, args, TypeOK, LoopInv, OverInv, CouldEnd, Expired, Ends, KnockStates, RequestStates, Terminal, Waits
<1>10. ASSUME NEW f \in {"accept", "response"}, ReceiveStatus(f)
       PROVE  OverInv'
  BY <1>10 DEF ReceiveStatus, Received, Return, Sleep, server, args, TypeOK, LoopInv, OverInv, CouldEnd, Expired, Ends, KnockStates, RequestStates, Terminal, Waits
<1>11. ASSUME Wake
       PROVE  OverInv'
  BY <1>11 DEF Wake, Request, server, args, TypeOK, LoopInv, OverInv, CouldEnd, Expired, Ends, KnockStates, RequestStates, Terminal, Waits
<1>12. ASSUME Lose
       PROVE  OverInv'
  BY <1>12 DEF Lose, Return, server, args, TypeOK, LoopInv, OverInv, CouldEnd, Expired, Ends, KnockStates, RequestStates, Terminal, Waits
<1>13. ASSUME View
       PROVE  OverInv'
  BY <1>13 DEF View, Bystander, server, args, TypeOK, LoopInv, OverInv, CouldEnd, Expired, Ends, KnockStates, RequestStates, Terminal, Waits
<1>14. ASSUME Finish
       PROVE  OverInv'
  BY <1>14 DEF Finish, Bystander, server, args, TypeOK, LoopInv, OverInv, CouldEnd, Expired, Ends, KnockStates, RequestStates, Terminal, Waits
<1>15. ASSUME NEW v \in {"pending", "active", "blocked"}, Admin(v)
       PROVE  OverInv'
  BY <1>15 DEF Admin, Bystander, server, args, TypeOK, LoopInv, OverInv, CouldEnd, Expired, Ends, KnockStates, RequestStates, Terminal, Waits
<1>16. ASSUME Restart
       PROVE  OverInv'
  BY <1>16 DEF Restart, Bystander, server, args, TypeOK, LoopInv, OverInv, CouldEnd, Expired, Ends, KnockStates, RequestStates, Terminal, Waits
<1>17. ASSUME Tick
       PROVE  OverInv'
  BY <1>17 DEF Tick, server, args, TypeOK, LoopInv, OverInv, CouldEnd, Expired, Ends, KnockStates, RequestStates, Terminal, Waits
<1>18. ASSUME UNCHANGED vars
       PROVE  OverInv'
  BY <1>18 DEF vars, server, args, TypeOK, LoopInv, OverInv, CouldEnd, Expired, Ends, KnockStates, RequestStates, Terminal, Waits
<1> QED
  BY <1>1, <1>2, <1>3, <1>4, <1>5, <1>6, <1>7, <1>8, <1>9,
     <1>10, <1>11, <1>12, <1>13, <1>14, <1>15, <1>16, <1>17, <1>18
     DEF Next, Calls, Serve, Receive, Others

-----------------------------------------------------------------------------
(* The inductive invariant. *)
IInv == TypeOK /\ LoopInv /\ MemoryInv /\ OverInv

(* It holds for ever. *)
LEMMA InvCorrect == Spec => []IInv
<1>1. Init => IInv
  <2>1. Init => MemoryInv /\ OverInv
    BY DEF Init, MemoryInv, OverInv, CouldEnd, Waits
  <2> QED
    BY <2>1, InitLoop DEF IInv
<1>2. IInv /\ [Next]_vars => IInv'
  BY NextLoop, NextMemory, NextOver DEF IInv
<1> QED
  BY <1>1, <1>2, PTL DEF Spec

(* The types; and no clock that a wait looks at passes MaxElapsed, because *)
(* the wait ends before.                                                   *)
THEOREM TypeCorrect == Spec => []TypeOK
<1>1. IInv => TypeOK
  BY DEF IInv
<1> QED
  BY <1>1, InvCorrect, PTL

(* A wait with a timeout overruns it by less than one interval and one     *)
(* HTTP call, for all intervals and timeouts.                              *)
THEOREM InTimeCorrect == Spec => []ReturnsInTime
<1>1. IInv => ReturnsInTime
  <2> SUFFICES ASSUME IInv, Timed PROVE elapsed < timeout + poll + HttpTimeout
    BY DEF ReturnsInTime, Timed
  <2>1. /\ pc \in {"request", "sleep"} /\ timer \in Nat /\ elapsed \in Nat
        /\ timeout \in Int /\ poll \in Int /\ HttpTimeout \in Nat \ {0}
    BY Bounds DEF IInv, TypeOK, LoopInv, Timed
  <2> QED
    BY <2>1 DEF IInv, LoopInv
<1> QED
  BY <1>1, InvCorrect, PTL

(* Who is told "not found" has been forgotten.                             *)
THEOREM NotFoundCorrect == Spec => NotFoundMeansForgotten
<1>1. IInv /\ [Next]_vars =>
        [result' = Error("NotFoundError") /\ call' = "none" /\ call # "none" => forgot]_vars
  <2> SUFFICES ASSUME IInv, [Next]_vars, result' = Error("NotFoundError"),
                      call' = "none", call # "none"
               PROVE  forgot
    BY Zenon
  <2>1. CASE ReceiveError
    <3>1. ErrorType(answer.code) = "NotFoundError" /\ answer # None
      BY <2>1 DEF ReceiveError, Return, Error
    <3>2. answer.code = 404
      BY <3>1 DEF ErrorType
    <3> QED
      BY <3>1, <3>2 DEF IInv, MemoryInv
  <2>2. CASE ReceiveCreated
    BY <2>2 DEF ReceiveCreated, Return, Value, Error
  <2>3. ASSUME NEW f \in Waits, ReceiveStatus(f)
        PROVE  FALSE
    BY <2>3 DEF ReceiveStatus, Received, Sleep, Waits, Return, Value, Error
  <2>4. CASE Lose
    BY <2>4 DEF Lose, Return, Error
  <2>5. CASE Calls \/ Wake
    BY <2>5 DEF Calls, CreateRequest, WaitForResponse, WaitForAcceptance, Begin, Wake
  <2>6. CASE Serve \/ (\E code \in Refusals : Refuse(code))
    BY <2>6 DEF Serve, ServeKnockStatus, ServeCreate, ServeGet, Refuse, Unchanged
  <2>7. CASE Others \/ Tick \/ UNCHANGED vars
    BY <2>7 DEF Others, View, Finish, Admin, Restart, Bystander, Tick, vars
  <2> QED
    BY <2>1, <2>2, <2>3, <2>4, <2>5, <2>6, <2>7 DEF Next, Receive, Waits
<1> QED
  BY <1>1, InvCorrect, PTL DEF Spec, NotFoundMeansForgotten

(* A wait that times out could not have ended earlier.                     *)
THEOREM TimeoutCorrect == Spec => TimeoutMissesNothing
<1>1. IInv /\ [Next]_vars =>
        [call # "none" /\ result' = Error("timeout") /\ call' = "none" => over <= HttpTimeout]_vars
  <2> SUFFICES ASSUME IInv, [Next]_vars, call # "none", result' = Error("timeout"),
                      call' = "none"
               PROVE  over <= HttpTimeout
    BY Zenon
  <2>1. CASE ReceiveError
    <3>1. ErrorType(answer.code) # "timeout"
      BY DEF ErrorType
    <3> QED
      BY <2>1, <3>1 DEF ReceiveError, Return, Error
  <2>2. CASE ReceiveCreated
    BY <2>2 DEF ReceiveCreated, Return, Value, Error
  <2>3. ASSUME NEW f \in Waits, ReceiveStatus(f)
        PROVE  over <= HttpTimeout
    <3>1. call = f /\ answer # None /\ answer.code \in 200..299
      BY <2>3 DEF ReceiveStatus, Received
    <3>2. answer.status \notin Ends(f)
      BY <2>3 DEF ReceiveStatus, Return, Value, Error
    <3>3. over + timer <= HttpTimeout
      BY <2>3, <3>1, <3>2 DEF IInv, OverInv
    <3> QED
      BY <3>3, Bounds DEF IInv, TypeOK
  <2>4. CASE Lose
    BY <2>4 DEF Lose, Return, Error
  <2>5. CASE Calls \/ Wake
    BY <2>5 DEF Calls, CreateRequest, WaitForResponse, WaitForAcceptance, Begin, Wake
  <2>6. CASE Serve \/ (\E code \in Refusals : Refuse(code))
    BY <2>6 DEF Serve, ServeKnockStatus, ServeCreate, ServeGet, Refuse, Unchanged
  <2>7. CASE Others \/ Tick \/ UNCHANGED vars
    BY <2>7 DEF Others, View, Finish, Admin, Restart, Bystander, Tick, vars
  <2> QED
    BY <2>1, <2>2, <2>3, <2>4, <2>5, <2>6, <2>7 DEF Next, Receive, Waits
<1> QED
  BY <1>1, InvCorrect, PTL DEF Spec, TimeoutMissesNothing
=============================================================================
