--------------------------- MODULE HandshakeProofs ---------------------------
(***************************************************************************)
(* Proofs about the handshake, for every value of the constants.  The      *)
(* ticket: however the owner, the worker and the network take turns, the   *)
(* platform's interface is used as AuthenticationTicket says, and the owner *)
(* knows of the ticket when it relies on it and of its end when it leaves.  *)
(* The datagrams: what is on its way from a correct server is always        *)
(* something the client's stage can take, unless the network put it out of *)
(* order.                                                                  *)
(***************************************************************************)
EXTENDS Handshake, SequenceTheorems, TLAPS

(* Nobody wants a result any more, and the worker will see that.            *)
Doomed == raised \cap {"cancelled", "stop"} # {}

Known(milestone) ==
  Seen(milestone) \/ \E i \in DOMAIN milestones : milestones[i] = milestone

(* Who holds a live ticket: the worker for the connection, or the update    *)
(* that obtained it.                                                        *)
Holder ==
  /\ ticket = "live" <=>
       \/ retained \/ at = "undoing"
       \/ (at \in {"updated", "discarding", "publishing"} /\ outcome = "session")
  /\ retained => operation = "none" /\ at \in {"waiting", "dropping", "releasing"}
  /\ outcome = "session" => at \in {"updated", "discarding", "publishing"}
  /\ at = "discarding" => outcome = "session"
  /\ at = "undoing" => outcome \in Errors
  /\ at = "publishing" => outcome # "pending"
  /\ ticket = "live" => api = "on"

(* The operation is begun once and asks for one ticket: no update follows   *)
(* the one that asked.                                                      *)
OneAttempt ==
  /\ at \in {"updating", "updated", "undoing", "discarding"} => operation # "none"
  /\ at \in {"starting", "beginning", "concluding", "releasing", "publishing",
             "leaving", "exiting", "exited"} => operation = "none"
  /\ operation # "none" => ~cancelSeen
  /\ operation = "ready" => api = "on"
  /\ operation = "fresh" => ticket = "none"
  /\ at \in {"starting", "beginning"} => ticket = "none" /\ api = "off" /\ ~cancelSeen
  /\ (at = "updating" \/ (at = "waiting" /\ operation # "none" /\ ~Doomed))
     => ticket = "none" /\ (operation = "fresh" => api = "off")
  /\ at = "updated" /\ outcome = "pending" => operation = "ready" /\ ticket = "none"
  /\ at \in {"dropping", "concluding", "discarding"} => Doomed
  /\ api = "down" => at \in {"exiting", "exited"}
  /\ at \in {"exiting", "exited"} => api # "on"

(* What the flags and the result say of the two sides.                      *)
InStepWithOwner ==
  /\ guard # "none" <=> Relied
  /\ Relied => /\ retained /\ at = "waiting" /\ result # "material"
               /\ raised \cap {"cancelled", "released", "stop"} = {}
  /\ result = "material" =>
       /\ operation = "none" /\ "released" \notin raised
       /\ (at = "waiting" /\ retained) \/ at \in {"dropping", "concluding"}
  /\ "released" \in raised =>
       operation = "none" /\ at \notin {"starting", "beginning", "publishing"}
  /\ "stop" \in raised => hostAt \in {"joining", "gone"}
  /\ hostAt = "polling" => state = "waiting_for_authentication"
  /\ state = "waiting_for_authentication" => route = "provider"
  /\ route \in {"prepared", "provider"}
  /\ (route # "provider" \/ hostAt = "gone") => at = "exited" /\ milestones = <<>>

(* What the milestones that were recorded say of the ticket.                *)
Recorded ==
  /\ (retained \/ result = "material" \/ outcome = "session") => Known("acquired")
  /\ Relied => Seen("acquired")
  /\ Known("acquired") => (ticket = "live" /\ at # "undoing") \/ Known("terminated")
  /\ Known("acquired") => ticket # "none"
  /\ api = "down" => Known("shutdown")

IInv == TypeOK /\ Holder /\ OneAttempt /\ InStepWithOwner /\ Recorded
------------------------------------------------------------------------------
(* What a step does to the milestones that are known: one more is recorded, *)
(* all are handed to the owner, or nothing changes.                         *)
LEMMA RecordedOneMore ==
  ASSUME TypeOK, NEW m \in Milestones, milestones' = Append(milestones, m),
         UNCHANGED delivered, NEW k
  PROVE  /\ milestones' \in Seq(Milestones)
         /\ Known(k)' <=> Known(k) \/ k = m
         /\ Seen(k)' <=> Seen(k)
<1>1. milestones \in Seq(Milestones) /\ Len(milestones) \in Nat
  BY DEF TypeOK
<1>2. /\ milestones' \in Seq(Milestones)
      /\ DOMAIN milestones' = 1 .. Len(milestones) + 1
      /\ \A i \in 1 .. Len(milestones) : milestones'[i] = milestones[i]
      /\ milestones'[Len(milestones) + 1] = m
  BY <1>1, AppendProperties
<1>3. Seen(k)' <=> Seen(k)
  BY DEF Seen
<1>4. (\E i \in DOMAIN milestones' : milestones'[i] = k)
        <=> (\E i \in DOMAIN milestones : milestones[i] = k) \/ k = m
  <2>1. DOMAIN milestones = 1 .. Len(milestones)
    BY <1>1
  <2>2. Len(milestones) + 1 \in 1 .. Len(milestones) + 1
    BY <1>1
  <2>3. \A i \in 1 .. Len(milestones) + 1 : i \in 1 .. Len(milestones) \/ i = Len(milestones) + 1
    BY <1>1
  <2>4. 1 .. Len(milestones) \subseteq 1 .. Len(milestones) + 1
    BY <1>1
  <2> QED
    BY <1>2, <2>1, <2>2, <2>3, <2>4
<1> QED
  BY <1>2, <1>3, <1>4 DEF Known

LEMMA RecordedNothing ==
  ASSUME UNCHANGED <<milestones, delivered>>, NEW k
  PROVE  (Known(k)' <=> Known(k)) /\ (Seen(k)' <=> Seen(k))
BY DEF Known, Seen

LEMMA HandedOver ==
  ASSUME TypeOK, Drain, NEW k
  PROVE  /\ milestones' = <<>> /\ milestones' \in Seq(Milestones)
         /\ delivered' \in Seq(Milestones)
         /\ Known(k)' <=> Known(k)
         /\ Seen(k)' <=> Known(k)
<1>1. /\ milestones \in Seq(Milestones) /\ Len(milestones) \in Nat
      /\ delivered \in Seq(Milestones) /\ Len(delivered) \in Nat
  BY DEF TypeOK
<1>2. milestones' = <<>> /\ delivered' = delivered \o milestones
  BY DEF Drain
<1>3. /\ delivered' \in Seq(Milestones)
      /\ DOMAIN delivered' = 1 .. Len(delivered) + Len(milestones)
      /\ \A i \in 1 .. Len(delivered) + Len(milestones) :
           delivered'[i] = IF i <= Len(delivered) THEN delivered[i]
                                                  ELSE milestones[i - Len(delivered)]
  BY <1>1, <1>2, ConcatProperties
<1>4. ASSUME NEW i \in DOMAIN delivered
      PROVE  i \in DOMAIN delivered' /\ delivered'[i] = delivered[i]
  BY <1>1, <1>3, <1>4
<1>5. ASSUME NEW i \in DOMAIN milestones
      PROVE  /\ i + Len(delivered) \in DOMAIN delivered'
             /\ delivered'[i + Len(delivered)] = milestones[i]
  BY <1>1, <1>3, <1>5
<1>6. ASSUME NEW i \in DOMAIN delivered'
      PROVE  \/ i \in DOMAIN delivered /\ delivered'[i] = delivered[i]
             \/ /\ i - Len(delivered) \in DOMAIN milestones
                /\ delivered'[i] = milestones[i - Len(delivered)]
  <2>1. i \in 1 .. Len(delivered) + Len(milestones)
    BY <1>3, <1>6
  <2>2. CASE i <= Len(delivered)
    BY <1>1, <1>3, <2>1, <2>2
  <2>3. CASE ~ (i <= Len(delivered))
    BY <1>1, <1>3, <2>1, <2>3
  <2> QED
    BY <2>2, <2>3
<1>7. Seen(k)' <=> Known(k)
  BY <1>4, <1>5, <1>6 DEF Seen, Known
<1>8. Known(k)' <=> Seen(k)'
  BY <1>2 DEF Known
<1> QED
  BY <1>2, <1>3, <1>7, <1>8
------------------------------------------------------------------------------
LEMMA InitIsGood == Init => IInv
<1> SUFFICES ASSUME Init PROVE IInv
  OBVIOUS
<1>1. TypeOK
  <2>1. <<>> \in Seq(Milestones)
    OBVIOUS
  <2> QED
    BY <2>1 DEF Init, WorkerInit, TypeOK, Flags, Errors
<1>2. Holder /\ OneAttempt /\ InStepWithOwner
  BY HandshakeAssumption
     DEF Init, WorkerInit, Holder, OneAttempt, InStepWithOwner, Relied, Doomed
<1>3. Recorded
  BY DEF Init, WorkerInit, Recorded, Known, Seen, Relied
<1> QED
  BY <1>1, <1>2, <1>3 DEF IInv

(* A step of the worker, of which the owner sees nothing but the shared     *)
(* flags.                                                                   *)
LEMMA WorkerIsGood ==
  ASSUME IInv, WorkerStep, UNCHANGED hostVars
  PROVE  IInv'
<1> USE DEF IInv, hostVars
<1>0. Relied' <=> Relied
  BY DEF Relied
<1>1. CASE AwaitRequest
  <2>1. TypeOK'
    BY <1>1 DEF AwaitRequest, TypeOK, sharedVars, nativeVars
  <2>2. Holder' /\ OneAttempt'
    BY <1>1 DEF AwaitRequest, Holder, OneAttempt, Doomed, sharedVars, nativeVars
  <2>3. InStepWithOwner'
    BY <1>1, <1>0 DEF AwaitRequest, InStepWithOwner, Holder, OneAttempt, sharedVars, nativeVars
  <2>4. Recorded'
    BY <1>1, <1>0, RecordedNothing DEF AwaitRequest, Recorded, InStepWithOwner, Holder, OneAttempt, sharedVars, nativeVars
  <2> QED
    BY <2>1, <2>2, <2>3, <2>4
<1>2. CASE BeginOperation
  <2>1. TypeOK'
    <3>1. /\ at' \in {"waiting", "leaving"} /\ operation' \in {"fresh", operation}
          /\ result' \in {"failed", result} /\ terminal' \in {TRUE, terminal}
      BY <1>2 DEF BeginOperation
    <3>2. UNCHANGED <<raised, milestones, stopping, cancelSeen, outcome, retained, api, ticket,
                      delivered>>
      BY <1>2 DEF BeginOperation, nativeVars
    <3> QED
      <4>1. /\ raised \subseteq Flags /\ terminal \in BOOLEAN
            /\ result \in {"none", "material"} \cup Errors
            /\ milestones \in Seq(Milestones) /\ delivered \in Seq(Milestones)
            /\ operation \in {"none", "fresh", "ready"}
        BY DEF TypeOK
      <4>2. /\ raised' \subseteq Flags /\ terminal' \in BOOLEAN
            /\ result' \in {"none", "material"} \cup Errors
            /\ milestones' \in Seq(Milestones) /\ delivered' \in Seq(Milestones)
            /\ operation' \in {"none", "fresh", "ready"}
        BY <3>1, <3>2, <4>1 DEF Errors
      <4> QED
        BY <3>1, <3>2, <4>2 DEF TypeOK
  <2>2. Holder' /\ OneAttempt'
    BY <1>2 DEF BeginOperation, Holder, OneAttempt, Doomed, Errors, nativeVars
  <2>3. InStepWithOwner'
    BY <1>2, <1>0 DEF BeginOperation, InStepWithOwner, Holder, OneAttempt, Errors, nativeVars
  <2>4. Recorded'
    BY <1>2, <1>0, RecordedNothing DEF BeginOperation, Recorded, InStepWithOwner, Holder, OneAttempt, Errors, nativeVars
  <2> QED
    BY <2>1, <2>2, <2>3, <2>4
<1>3. CASE Wake
  <2>1. TypeOK'
    BY <1>3 DEF Wake, Cancelling, TypeOK, Flags, nativeVars
  <2>2. Holder' /\ OneAttempt'
    BY <1>3 DEF Wake, Cancelling, Holder, OneAttempt, Doomed, InStepWithOwner, nativeVars
  <2>3. InStepWithOwner'
    BY <1>3, <1>0 DEF Wake, Cancelling, InStepWithOwner, Holder, OneAttempt, nativeVars
  <2>4. Recorded'
    BY <1>3, <1>0, RecordedNothing DEF Wake, Cancelling, Recorded, InStepWithOwner, Holder, OneAttempt, nativeVars
  <2> QED
    BY <2>1, <2>2, <2>3, <2>4
<1>4. CASE Drop
  <2>1. TypeOK'
    <3>1. milestones' \in Seq(Milestones)
      BY <1>4, RecordedOneMore DEF Drop, LetGo, Terminates, TypeOK, Milestones
    <3> QED
      BY <1>4, <3>1 DEF Drop, LetGo, Terminates, TypeOK
  <2>2. Holder' /\ OneAttempt'
    BY <1>4 DEF Drop, LetGo, Terminates, Holder, OneAttempt, Doomed
  <2>3. InStepWithOwner'
    BY <1>4, <1>0 DEF Drop, LetGo, Terminates, InStepWithOwner, Holder, OneAttempt
  <2>4. Recorded'
    BY <1>4, <1>0, RecordedOneMore, RecordedNothing DEF Drop, LetGo, Terminates, Recorded, InStepWithOwner, Holder, OneAttempt, Milestones
  <2> QED
    BY <2>1, <2>2, <2>3, <2>4
<1>5. CASE Conclude
  <2>1. TypeOK'
    BY <1>5 DEF Conclude, TypeOK, nativeVars
  <2>2. Holder' /\ OneAttempt'
    BY <1>5 DEF Conclude, Holder, OneAttempt, Doomed, nativeVars
  <2>3. InStepWithOwner'
    BY <1>5, <1>0 DEF Conclude, InStepWithOwner, Holder, OneAttempt, nativeVars
  <2>4. Recorded'
    BY <1>5, <1>0, RecordedNothing DEF Conclude, Recorded, InStepWithOwner, Holder, OneAttempt, nativeVars
  <2> QED
    BY <2>1, <2>2, <2>3, <2>4
<1>6. CASE Release
  <2>1. TypeOK'
    <3>1. milestones' \in Seq(Milestones)
      BY <1>6, RecordedOneMore DEF Release, LetGo, Terminates, TypeOK, Milestones
    <3>2. ticket' = "terminated" \/ ticket' = ticket
      BY <1>6 DEF Release, LetGo, Terminates
    <3> QED
      <4>1. /\ at' = "waiting" /\ retained' = FALSE
            /\ UNCHANGED <<raised, terminal, result, stopping, cancelSeen, operation, outcome,
                           api, delivered>>
        BY <1>6 DEF Release
      <4>2. ticket' \in {"none", "live", "terminated"}
        BY <3>2 DEF TypeOK
      <4> QED
        BY <3>1, <4>1, <4>2 DEF TypeOK
  <2>2. Holder' /\ OneAttempt'
    BY <1>6 DEF Release, LetGo, Terminates, Holder, OneAttempt, Doomed
  <2>3. InStepWithOwner'
    BY <1>6, <1>0 DEF Release, LetGo, Terminates, InStepWithOwner, Holder, OneAttempt
  <2>4. Recorded'
    BY <1>6, <1>0, RecordedOneMore, RecordedNothing DEF Release, LetGo, Terminates, Recorded, InStepWithOwner, Holder, OneAttempt, Milestones
  <2> QED
    BY <2>1, <2>2, <2>3, <2>4
<1>7. CASE Prepare
  <2>1. TypeOK'
    BY <1>7 DEF Prepare, TypeOK, Errors, sharedVars
  <2>2. Holder' /\ OneAttempt'
    BY <1>7 DEF Prepare, Holder, OneAttempt, Doomed, Errors, sharedVars
  <2>3. InStepWithOwner'
    BY <1>7, <1>0 DEF Prepare, InStepWithOwner, Holder, OneAttempt, Errors, sharedVars
  <2>4. Recorded'
    BY <1>7, <1>0, RecordedNothing DEF Prepare, Recorded, InStepWithOwner, Holder, OneAttempt, Errors, sharedVars
  <2> QED
    BY <2>1, <2>2, <2>3, <2>4
<1>8. CASE Initiate
  <2>1. TypeOK'
    <3>1. milestones' \in Seq(Milestones)
      BY <1>8, RecordedOneMore DEF Initiate, TypeOK, Milestones
    <3> QED
      BY <1>8, <3>1 DEF Initiate, TypeOK, Errors
  <2>2. Holder' /\ OneAttempt'
    BY <1>8 DEF Initiate, Holder, OneAttempt, Doomed, Errors
  <2>3. InStepWithOwner'
    BY <1>8, <1>0 DEF Initiate, InStepWithOwner, Holder, OneAttempt, Errors
  <2>4. Recorded'
    BY <1>8, <1>0, RecordedOneMore, RecordedNothing DEF Initiate, Recorded, InStepWithOwner, Holder, OneAttempt, Errors, Milestones
  <2> QED
    BY <2>1, <2>2, <2>3, <2>4
<1>9. CASE Undo
  <2>1. TypeOK'
    BY <1>9 DEF Undo, TypeOK, sharedVars
  <2>2. Holder' /\ OneAttempt'
    BY <1>9 DEF Undo, Holder, OneAttempt, Doomed, Errors, sharedVars
  <2>3. InStepWithOwner'
    BY <1>9, <1>0 DEF Undo, InStepWithOwner, Holder, OneAttempt, Errors, sharedVars
  <2>4. Recorded'
    BY <1>9, <1>0, RecordedNothing DEF Undo, Recorded, InStepWithOwner, Holder, OneAttempt, Errors, sharedVars
  <2> QED
    BY <2>1, <2>2, <2>3, <2>4
<1>10. CASE Examine
  <2>1. TypeOK'
    BY <1>10 DEF Examine, TypeOK, Errors, sharedVars, nativeVars
  <2>2. Holder' /\ OneAttempt'
    BY <1>10 DEF Examine, Holder, OneAttempt, Doomed, Errors, sharedVars, nativeVars
  <2>3. InStepWithOwner'
    BY <1>10, <1>0 DEF Examine, InStepWithOwner, Holder, OneAttempt, Errors, sharedVars, nativeVars
  <2>4. Recorded'
    BY <1>10, <1>0, RecordedNothing DEF Examine, Recorded, InStepWithOwner, Holder, OneAttempt, Errors, sharedVars, nativeVars
  <2> QED
    BY <2>1, <2>2, <2>3, <2>4
<1>11. CASE Discard
  <2>1. TypeOK'
    <3>1. milestones' \in Seq(Milestones)
      BY <1>11, RecordedOneMore DEF Discard, Terminates, TypeOK, Milestones
    <3> QED
      BY <1>11, <3>1 DEF Discard, Terminates, TypeOK
  <2>2. Holder' /\ OneAttempt'
    BY <1>11 DEF Discard, Terminates, Holder, OneAttempt, Doomed
  <2>3. InStepWithOwner'
    BY <1>11, <1>0 DEF Discard, Terminates, InStepWithOwner, Holder, OneAttempt
  <2>4. Recorded'
    BY <1>11, <1>0, RecordedOneMore DEF Discard, Terminates, Recorded, InStepWithOwner, Holder, OneAttempt, Milestones
  <2> QED
    BY <2>1, <2>2, <2>3, <2>4
<1>12. CASE Publish
  <2>0. \/ outcome = "session" /\ retained' = TRUE /\ result' = "material"
        \/ outcome \in Errors /\ retained' = FALSE /\ result' = outcome
    BY <1>12 DEF Publish, TypeOK, Holder
  <2>1. TypeOK'
    BY <1>12, <2>0 DEF Publish, TypeOK, nativeVars
  <2>2. Holder' /\ OneAttempt'
    BY <1>12, <2>0 DEF Publish, Holder, OneAttempt, Doomed, Errors, nativeVars
  <2>3. InStepWithOwner'
    BY <1>12, <1>0, <2>0 DEF Publish, InStepWithOwner, Holder, OneAttempt, Errors, nativeVars
  <2>4. Recorded'
    BY <1>12, <1>0, <2>0, RecordedNothing DEF Publish, Recorded, InStepWithOwner, Holder, OneAttempt, Errors, nativeVars
  <2> QED
    BY <2>1, <2>2, <2>3, <2>4
<1>13. CASE Leave
  <2>1. TypeOK'
    <3>1. milestones' \in Seq(Milestones)
      BY <1>13, RecordedOneMore DEF Leave, TypeOK, Milestones
    <3> QED
      BY <1>13, <3>1 DEF Leave, TypeOK
  <2>2. Holder' /\ OneAttempt'
    BY <1>13 DEF Leave, Holder, OneAttempt, Doomed
  <2>3. InStepWithOwner'
    BY <1>13, <1>0 DEF Leave, InStepWithOwner, Holder, OneAttempt
  <2>4. Recorded'
    BY <1>13, <1>0, RecordedOneMore, RecordedNothing DEF Leave, Recorded, InStepWithOwner, Holder, OneAttempt, Milestones
  <2> QED
    BY <2>1, <2>2, <2>3, <2>4
<1>14. CASE Exit
  <2>1. TypeOK'
    BY <1>14 DEF Exit, TypeOK, sharedVars, nativeVars
  <2>2. Holder' /\ OneAttempt'
    BY <1>14 DEF Exit, Holder, OneAttempt, Doomed, sharedVars, nativeVars
  <2>3. InStepWithOwner'
    BY <1>14, <1>0 DEF Exit, InStepWithOwner, Holder, OneAttempt, sharedVars, nativeVars
  <2>4. Recorded'
    BY <1>14, <1>0, RecordedNothing DEF Exit, Recorded, InStepWithOwner, Holder, OneAttempt, sharedVars, nativeVars
  <2> QED
    BY <2>1, <2>2, <2>3, <2>4
<1> QED
  BY <1>1, <1>2, <1>3, <1>4, <1>5, <1>6, <1>7, <1>8, <1>9, <1>10, <1>11, <1>12, <1>13, <1>14 DEF WorkerStep
------------------------------------------------------------------------------
(* The owner raises flags and leaves the worker where it is.                *)
LEMMA FrameIsGood ==
  ASSUME IInv, UNCHANGED <<localVars, nativeVars>>, raised \subseteq raised'
  PROVE  Holder' /\ OneAttempt'
BY DEF IInv, Holder, OneAttempt, Doomed, localVars, nativeVars

(* A call that takes no notice of the ticket: it may ask for a poll, take   *)
(* the milestones, or forget a result, but relies on the ticket as before.  *)
LEMMA KeepingIsGood ==
  ASSUME IInv, UNCHANGED <<route, localVars, nativeVars>>,
         guard' # "none" <=> guard # "none", Relied' <=> Relied,
         raised' \in {raised, raised \cup {"begun"}, raised \cup {"poll"}},
         terminal' = terminal, result' \in {result, "none"},
         Drain \/ UNCHANGED <<milestones, delivered>>,
         \/ hostAt' = hostAt /\ state' = state /\ hostAt # "gone"
         \/ /\ hostAt \in {"outside", "polling"} /\ hostAt' \in {"outside", "polling"}
            /\ hostAt' = "polling" => state' = "waiting_for_authentication"
            /\ state' = "waiting_for_authentication" => route = "provider"
  PROVE  IInv'
<1> USE DEF IInv
<1>1. TypeOK'
  BY HandedOver DEF TypeOK, Flags, localVars, nativeVars
<1>2. Holder' /\ OneAttempt'
  BY FrameIsGood
<1>3. InStepWithOwner'
  <2>1. milestones = <<>> => milestones' = <<>>
    BY HandedOver
  <2> QED
    BY <2>1 DEF InStepWithOwner, localVars
<1>4. Recorded'
  <2>1. /\ \A k : Known(k)' <=> Known(k)
        /\ \A k : Seen(k) => Seen(k)'
    BY HandedOver, RecordedNothing DEF Known
  <2> QED
    BY <2>1 DEF Recorded, localVars, nativeVars
<1> QED
  BY <1>1, <1>2, <1>3, <1>4

(* A call that ends the reliance, if there was any: the worker is told.     *)
LEMMA PartingIsGood ==
  ASSUME IInv, NEW flags \in SUBSET {"cancelled"}, Parts(flags), hostAt = "outside",
         UNCHANGED <<route, localVars, nativeVars, terminal, result, milestones, delivered>>,
         \/ /\ hostAt' = "outside"
            /\ state' \notin {"waiting_for_authentication", "waiting_for_connect_response",
                              "waiting_for_netchan"}
         \/ state' = state /\ hostAt' = "dismantled"
         \/ state' = state /\ hostAt' = "gone" /\ route # "provider"
  PROVE  IInv'
<1> USE DEF IInv
<1>1. ~Relied' /\ guard' = "none"
  BY DEF Relied, Parts
<1>2. /\ raised \subseteq raised' /\ raised' \subseteq raised \cup {"cancelled", "released"}
      /\ "released" \in raised' => "released" \in raised \/ Relied
  BY DEF Parts, Raise, InStepWithOwner
<1>3. TypeOK'
  BY <1>2 DEF TypeOK, Flags, localVars, nativeVars
<1>4. Holder' /\ OneAttempt'
  BY <1>2, FrameIsGood
<1>5. InStepWithOwner'
  BY <1>1, <1>2 DEF InStepWithOwner, Holder, localVars
<1>6. Recorded'
  BY <1>1, RecordedNothing DEF Recorded, localVars, nativeVars
<1> QED
  BY <1>3, <1>4, <1>5, <1>6

LEMMA EndingIsGood ==
  ASSUME IInv, NEW s, Ends(s), UNCHANGED <<route, localVars, nativeVars>>,
         hostAt = "outside",
         s \notin {"waiting_for_authentication", "waiting_for_connect_response",
                   "waiting_for_netchan"}
  PROVE  IInv'
<1>1. {} \in SUBSET {"cancelled"}
  OBVIOUS
<1> QED
  BY <1>1, PartingIsGood DEF Ends

(* The material arrives: the connect request goes out and relies on the     *)
(* ticket, or the ticket is released at once.                               *)
LEMMA MaterialIsGood ==
  ASSUME IInv, FinishPoll, Beside, Polled = "material"
  PROVE  IInv'
<1> USE DEF IInv
<1>1. /\ hostAt = "polling" /\ hostAt' = "outside" /\ route' = route
      /\ result' = "none" /\ terminal' = terminal /\ Drain
      /\ UNCHANGED <<localVars, nativeVars>>
  BY DEF FinishPoll, Beside, Errors
<1>2. "cancelled" \notin raised /\ result = "material"
  BY DEF Polled
<1>3. "stop" \notin raised /\ route = "provider" /\ ~Relied /\ guard = "none"
  BY <1>1 DEF InStepWithOwner, Relied
<1>4. /\ retained /\ at = "waiting" /\ operation = "none" /\ "released" \notin raised
  BY <1>2, <1>3 DEF InStepWithOwner, OneAttempt, Doomed
<1>5. \/ Relied' /\ guard' # "none" /\ raised' = raised
      \/ ~Relied' /\ guard' = "none" /\ raised' = raised \cup {"released"}
  <2>1. CASE SendConnect(TRUE)
    BY <1>1, <1>3, <2>1 DEF SendConnect, Relied
  <2>2. CASE /\ state' \in {"authentication_failed", "network_error"}
             /\ Raise({"released"}) /\ guard' = guard
    BY <1>3, <2>2 DEF Raise, Relied
  <2> QED
    BY <1>2, <2>1, <2>2 DEF FinishPoll, Polled, Errors
<1>6. TypeOK'
  <2>1. milestones' \in Seq(Milestones) /\ delivered' \in Seq(Milestones)
    BY <1>1, HandedOver
  <2>2. raised' \subseteq Flags
    BY <1>5 DEF TypeOK, Flags
  <2> QED
    BY <1>1, <2>1, <2>2 DEF TypeOK, localVars, nativeVars
<1>7. Holder' /\ OneAttempt'
  BY <1>1, <1>5, FrameIsGood
<1>8. InStepWithOwner'
  BY <1>1, <1>2, <1>3, <1>4, <1>5, HandedOver DEF InStepWithOwner, localVars
<1>9. Recorded'
  BY <1>1, <1>2, HandedOver DEF Recorded, localVars, nativeVars
<1> QED
  BY <1>6, <1>7, <1>8, <1>9

LEMMA HostIsGood ==
  ASSUME IInv, Host
  PROVE  IInv'
<1> USE DEF IInv
<1>0. UNCHANGED <<localVars, nativeVars>>
  BY DEF Host, Beside
<1>1. CASE Start
  <2>1. CASE SocketFails
    BY <1>0, <1>1, <2>1, EndingIsGood DEF Start, Waits, SocketFails
  <2>2. CASE ~SocketFails
    BY <1>0, <1>1, <2>2, KeepingIsGood DEF Start, Waits, SendRequest, Relied
  <2> QED
    BY <2>1, <2>2
<1>2. CASE UpdateChallenge
  <2>0. hostAt = "outside" /\ state = "waiting_for_challenge" /\ route' = route
    BY <1>2 DEF UpdateChallenge, Waits
  <2>1. ~Relied /\ guard = "none"
    BY <2>0 DEF Relied, InStepWithOwner
  <2>2. CASE \E s \in {"timed_out", "protocol_error", "challenge_received", "network_error"} :
               Ends(s)
    BY <1>0, <2>0, <2>2, EndingIsGood
  <2>3. CASE Challenged
    <3>1. CASE route = "prepared"
      BY <1>0, <2>0, <2>1, <2>3, <3>1, KeepingIsGood DEF Challenged, SendConnect, Relied
    <3>2. CASE route # "prepared"
      <4>1. route = "provider"
        BY <3>2 DEF InStepWithOwner
      <4> QED
        BY <1>0, <2>0, <2>1, <2>3, <3>2, <4>1, KeepingIsGood DEF Challenged, Raise, Relied
    <3> QED
      BY <3>1, <3>2
  <2>4. CASE /\ IF Due THEN SendRequest
                      ELSE UNCHANGED <<state, requests, attempts, sinceRequest>>
             /\ UNCHANGED <<hostAt, age, guard, raised, terminal, result, milestones,
                            delivered>>
    BY <1>0, <2>0, <2>1, <2>4, KeepingIsGood DEF SendRequest, Relied
  <2> QED
    BY <1>2, <2>2, <2>3, <2>4 DEF UpdateChallenge, SocketFails
<1>3. CASE BeginPoll
  BY <1>0, <1>3, KeepingIsGood DEF BeginPoll, Waits, Relied, InStepWithOwner
<1>4. CASE FinishPoll
  <2>1. CASE Polled = "material"
    BY <1>4, <2>1, MaterialIsGood DEF Host
  <2>2. CASE Polled # "material"
    BY <1>0, <1>4, <2>2, KeepingIsGood DEF FinishPoll, Poll, Relied, InStepWithOwner
  <2> QED
    BY <2>1, <2>2
<1>5. CASE UpdateResponse
  <2>0. hostAt = "outside" /\ state = "waiting_for_connect_response" /\ route' = route
    BY <1>5 DEF UpdateResponse, Waits
  <2>1. CASE \E s \in {"connect_response_timed_out", "rejected", "protocol_error",
                         "accepted", "network_error"} : Ends(s)
    BY <1>0, <2>0, <2>1, EndingIsGood
  <2>2. CASE Accepted
    BY <1>0, <2>0, <2>2, KeepingIsGood DEF Accepted, Relied
  <2>3. CASE Unchanging
    BY <1>0, <2>0, <2>3, KeepingIsGood DEF Unchanging, Relied
  <2> QED
    BY <1>5, <2>1, <2>2, <2>3 DEF UpdateResponse, SocketFails
<1>6. CASE UpdateNetchan
  <2>0. hostAt = "outside" /\ state = "waiting_for_netchan" /\ route' = route
    BY <1>6 DEF UpdateNetchan, Waits
  <2>1. CASE \E s \in {"netchan_timed_out", "netchan_bootstrap_complete", "protocol_error",
                         "network_error"} : Ends(s)
    BY <1>0, <2>0, <2>1, EndingIsGood
  <2>2. CASE Unchanging
    BY <1>0, <2>0, <2>2, KeepingIsGood DEF Unchanging, Relied
  <2> QED
    BY <1>6, <2>1, <2>2 DEF UpdateNetchan, SocketFails
<1>7. CASE LeavesStage /\ hostAt = "outside" /\ route' = route
           /\ UNCHANGED <<terminal, result, milestones, delivered>>
           /\ \/ hostAt' = "outside" /\ state' = "cancelled"
              \/ state' = state /\ hostAt' = "dismantled"
              \/ state' = state /\ hostAt' = "gone" /\ route # "provider"
  BY <1>0, <1>7, PartingIsGood DEF LeavesStage
<1>8. CASE Cancel
  BY <1>7, <1>8 DEF Cancel
<1>9. CASE RequestClose
  <2>1. CASE Over
    BY <1>0, <1>9, <2>1, KeepingIsGood DEF RequestClose, Relied
  <2>2. CASE ~Over
    BY <1>7, <1>9, <2>2 DEF RequestClose
  <2> QED
    BY <2>1, <2>2
<1>10. CASE Dismantle
  BY <1>7, <1>10 DEF Dismantle
<1>11. CASE StopWorker
  <2>1. /\ ~Relied /\ ~Relied' /\ raised' = raised \cup {"stop"} /\ guard' = guard
        /\ hostAt' = "joining" /\ route' = route /\ hostAt = "dismantled"
        /\ UNCHANGED <<state, terminal, result, milestones, delivered>>
    BY <1>11 DEF StopWorker, Raise, Relied
  <2>2. TypeOK'
    BY <1>0, <2>1 DEF TypeOK, Flags, localVars, nativeVars
  <2>3. Holder' /\ OneAttempt'
    BY <1>0, <2>1, FrameIsGood
  <2>4. InStepWithOwner'
    BY <1>0, <2>1 DEF InStepWithOwner, localVars
  <2>5. Recorded'
    BY <1>0, <2>1, RecordedNothing DEF Recorded, localVars, nativeVars
  <2> QED
    BY <2>2, <2>3, <2>4, <2>5
<1>12. CASE AwaitWorker
  BY <1>0, <1>12, KeepingIsGood DEF AwaitWorker, hostVars, Relied
<1>13. CASE JoinWorker
  <2>1. /\ ~Relied /\ ~Relied' /\ raised' = raised /\ guard' = guard /\ at = "exited"
        /\ hostAt' = "gone" /\ route' = route /\ hostAt = "joining" /\ Drain
        /\ UNCHANGED <<state, terminal, result>>
    BY <1>13 DEF JoinWorker, Relied
  <2>2. TypeOK'
    BY <1>0, <2>1, HandedOver DEF TypeOK, localVars, nativeVars
  <2>3. Holder' /\ OneAttempt'
    BY <1>0, <2>1, FrameIsGood
  <2>4. InStepWithOwner'
    BY <1>0, <2>1, HandedOver DEF InStepWithOwner, localVars
  <2>5. Recorded'
    BY <1>0, <2>1, HandedOver DEF Recorded, localVars, nativeVars
  <2> QED
    BY <2>2, <2>3, <2>4, <2>5
<1> QED
  BY <1>1, <1>2, <1>3, <1>4, <1>5, <1>6, <1>8, <1>9, <1>10, <1>11, <1>12, <1>13
     DEF Host, Update

LEMMA QuietIsGood ==
  ASSUME IInv, UNCHANGED <<workerVars, route, state, hostAt, guard>>
  PROVE  IInv'
<1>1. Relied' <=> Relied
  BY DEF Relied
<1>2. TypeOK' /\ Holder' /\ OneAttempt' /\ InStepWithOwner'
  BY <1>1 DEF IInv, TypeOK, Holder, OneAttempt, InStepWithOwner, Doomed,
       workerVars, sharedVars, localVars, nativeVars
<1>3. Recorded'
  BY <1>1, RecordedNothing DEF IInv, Recorded, workerVars, sharedVars, localVars, nativeVars
<1> QED
  BY <1>2, <1>3 DEF IInv

LEMMA NextIsGood == IInv /\ [Next]_vars => IInv'
<1> SUFFICES ASSUME IInv, [Next]_vars PROVE IInv'
  OBVIOUS
<1>1. CASE Host
  BY <1>1, HostIsGood
<1>2. CASE Worker
  BY <1>2, WorkerIsGood DEF Worker
<1>3. CASE Tick \/ Network \/ UNCHANGED vars
  BY <1>3, QuietIsGood DEF Tick, Network, vars, hostVars
<1> QED
  BY <1>1, <1>2, <1>3 DEF Next

THEOREM HandshakeIsGood == Spec => []IInv
BY InitIsGood, NextIsGood, PTL DEF Spec
------------------------------------------------------------------------------
(* An update asks for a ticket only while the interface is up and none was  *)
(* asked for, a ticket ends only when nobody relies on it, and the interface *)
(* goes down after it: every step is one AuthenticationTicket allows.       *)
LEMMA WorkerKeepsTicket ==
  ASSUME IInv, WorkerStep, UNCHANGED hostVars
  PROVE  [Ticket!Next]_(Ticket!vars)
<1> USE DEF IInv, Ticket!vars, Ticket!Next
<1>0. Relied' <=> Relied
  BY DEF Relied, hostVars
<1>1. CASE AwaitRequest \/ BeginOperation \/ Wake \/ Conclude \/ Examine \/ Publish \/ Exit
  BY <1>0, <1>1 DEF AwaitRequest, BeginOperation, Wake, Conclude, Examine, Publish, Exit, nativeVars
<1>2. CASE Drop \/ Release \/ Undo \/ Discard
  BY <1>0, <1>2 DEF Drop, Release, Undo, Discard, LetGo, Terminates, Holder, InStepWithOwner,
       Ticket!Terminate
<1>3. CASE Prepare
  BY <1>0, <1>3 DEF Prepare, OneAttempt, Ticket!BringUp
<1>4. CASE Initiate
  BY <1>0, <1>4 DEF Initiate, Holder, OneAttempt, Ticket!Issue
<1>5. CASE Leave
  BY <1>0, <1>5 DEF Leave, Holder, Ticket!ShutDown
<1> QED
  BY <1>1, <1>2, <1>3, <1>4, <1>5 DEF WorkerStep

LEMMA OwnerKeepsTicket ==
  ASSUME IInv, IInv', UNCHANGED nativeVars
  PROVE  [Ticket!Next]_(Ticket!vars)
<1>1. Relied \/ Relied' => ticket = "live"
  BY DEF IInv, InStepWithOwner, Holder, nativeVars
<1>2. Relied \in BOOLEAN /\ Relied' \in BOOLEAN
  BY DEF Relied
<1> QED
  BY <1>1, <1>2 DEF nativeVars, Ticket!vars, Ticket!Next, Ticket!Rely, Ticket!Part

(* The platform's ticket is used as the abstract specification says.        *)
THEOREM TicketIsKept == Spec => Ticket!Safe
<1>1. Init => Ticket!Init
  BY DEF Init, WorkerInit, Ticket!Init, Relied
<1>2. IInv /\ IInv' /\ [Next]_vars => [Ticket!Next]_(Ticket!vars)
  <2> SUFFICES ASSUME IInv, IInv', [Next]_vars PROVE [Ticket!Next]_(Ticket!vars)
    OBVIOUS
  <2>1. CASE Worker
    BY <2>1, WorkerKeepsTicket DEF Worker
  <2>2. CASE ~Worker
    BY <2>2, OwnerKeepsTicket DEF Next, Host, Beside, Tick, Network, vars, workerVars
  <2> QED
    BY <2>1, <2>2
<1> QED
  BY <1>1, <1>2, HandshakeIsGood, PTL DEF Spec, Ticket!Safe

(* The owner has heard of the ticket before it relies on it, and has heard  *)
(* of its end, and of the interface's, when it has left.                    *)
THEOREM MilestonesAreInStep == Spec => []MilestonesInStep
<1>1. IInv => MilestonesInStep
  <2> SUFFICES ASSUME IInv PROVE MilestonesInStep
    OBVIOUS
  <2> USE DEF IInv
  <2>1. Relied \/ guard # "none" => Seen("acquired")
    BY DEF InStepWithOwner, Recorded
  <2>2. ASSUME hostAt = "gone"
        PROVE  /\ ticket # "live" /\ (Seen("acquired") => Seen("terminated"))
               /\ api # "on" /\ (api = "down" => Seen("shutdown"))
    <3>1. at = "exited" /\ milestones = <<>>
      BY <2>2 DEF InStepWithOwner
    <3>2. ticket # "live" /\ api # "on"
      BY <3>1 DEF Holder, OneAttempt
    <3>3. \A k : Known(k) <=> Seen(k)
      BY <3>1 DEF Known
    <3> QED
      BY <3>2, <3>3 DEF Recorded
  <2> QED
    BY <2>1, <2>2 DEF MilestonesInStep
<1> QED
  BY <1>1, HandshakeIsGood, PTL

-----------------------------------------------------------------------------
(* The datagrams.                                                          *)

Requests == {"getchallenge", "connect"}
Kinds == {"foreign", "challenge", "accept", "reject", "sequenced"}

AllIn(queue, kinds) == \A i \in 1 .. Len(queue) : queue[i] \in kinds

HasAccept(queue) == \E i \in 1 .. Len(queue) : queue[i] = "accept"

(* Packets of the channel follow an ACCEPT, and nothing else does.          *)
Orderly(queue) ==
  \A i \in 1 .. Len(queue) :
    /\ queue[i] = "accept" => \A j \in i + 1 .. Len(queue) : queue[j] \in {"foreign", "sequenced"}
    /\ queue[i] = "sequenced" => \E j \in 1 .. i - 1 : queue[j] = "accept"

(* No connect has been sent, ...                                            *)
Asking ==
  /\ verdict = "undecided"
  /\ AllIn(requests, {"getchallenge"}) /\ AllIn(answers, Unrelated)

(* ... it was the last request, ...                                         *)
Asked ==
  /\ \A i \in 1 .. Len(requests) : requests[i] = "connect" => i = Len(requests)
  /\ verdict = "undecided" => AllIn(answers, Unrelated)
  /\ verdict # "undecided" => requests = <<>>
  /\ HasAccept(answers) <=> verdict = "accept"
  /\ Orderly(answers)

(* ... and it was granted.                                                  *)
Granted == requests = <<>> /\ AllIn(answers, {"foreign", "sequenced"})

InOrder ==
  /\ state \in {"idle", "waiting_for_challenge", "waiting_for_authentication"} => Asking
  /\ state = "waiting_for_connect_response" => Asked
  /\ state = "waiting_for_netchan" => Granted

QueuesOK ==
  /\ requests \in Seq(Requests) /\ answers \in Seq(Kinds)
  /\ verdict \in {"undecided", "accept", "reject"} /\ disordered \in BOOLEAN

Explained ==
  /\ hostAt = "polling" => state = "waiting_for_authentication"
  /\ disordered \/ Left \/ InOrder
  /\ ErrorIsExplained

OrderInv == QueuesOK /\ Explained
------------------------------------------------------------------------------
(* What is left of a queue when its first n elements are taken ...          *)
LEMMA RestElements ==
  ASSUME answers \in Seq(Kinds), NEW n \in Nat, n <= Len(answers)
  PROVE  /\ Rest(n) \in Seq(Kinds) /\ Len(Rest(n)) = Len(answers) - n
         /\ \A i \in 1 .. Len(answers) - n : Rest(n)[i] = answers[i + n]
<1>1. Len(answers) \in Nat /\ \A i \in 1 .. Len(answers) : answers[i] \in Kinds
  BY ElementOfSeq
<1>2. \A i \in n + 1 .. Len(answers) : answers[i] \in Kinds
  BY <1>1
<1>3. /\ SubSeq(answers, n + 1, Len(answers)) \in Seq(Kinds)
      /\ Len(SubSeq(answers, n + 1, Len(answers)))
           = IF n + 1 <= Len(answers) THEN Len(answers) - (n + 1) + 1 ELSE 0
      /\ \A i \in 1 .. Len(answers) - (n + 1) + 1 :
           SubSeq(answers, n + 1, Len(answers))[i] = answers[n + 1 + i - 1]
  <2>1. n + 1 \in Int /\ Len(answers) \in Int
    BY <1>1
  <2> QED
    BY <1>2, <2>1, SubSeqProperties
<1>4. Rest(n) = SubSeq(answers, n + 1, Len(answers))
  BY DEF Rest
<1>5. Rest(n) \in Seq(Kinds) /\ Len(Rest(n)) = Len(answers) - n
  BY <1>1, <1>3, <1>4
<1>6. ASSUME NEW i \in 1 .. Len(answers) - n
      PROVE  Rest(n)[i] = answers[i + n]
  <2>1. i \in 1 .. Len(answers) - (n + 1) + 1 /\ n + 1 + i - 1 = i + n
    BY <1>1
  <2> QED
    BY <1>3, <1>4, <2>1
<1> QED
  BY <1>5, <1>6

(* ... or one of them is lost.                                              *)
LEMMA WithoutElements ==
  ASSUME NEW S, NEW s \in Seq(S), NEW i \in 1 .. Len(s)
  PROVE  /\ Without(s, i) \in Seq(S) /\ Len(Without(s, i)) = Len(s) - 1
         /\ \A k \in 1 .. Len(s) - 1 :
              Without(s, i)[k] = IF k < i THEN s[k] ELSE s[k + 1]
<1> DEFINE a == SubSeq(s, 1, i - 1)
           b == SubSeq(s, i + 1, Len(s))
<1>1. Len(s) \in Nat /\ i \in Int /\ \A k \in 1 .. Len(s) : s[k] \in S
  BY ElementOfSeq
<1>2. a \in Seq(S) /\ Len(a) = i - 1 /\ \A k \in 1 .. i - 1 : a[k] = s[k]
  <2>1. \A k \in 1 .. i - 1 : s[k] \in S
    BY <1>1
  <2>2. 1 \in Int /\ i - 1 \in Int
    BY <1>1
  <2>3. /\ a \in Seq(S) /\ Len(a) = IF 1 <= i - 1 THEN i - 1 - 1 + 1 ELSE 0
        /\ \A k \in 1 .. i - 1 - 1 + 1 : a[k] = s[1 + k - 1]
    BY <2>1, <2>2, SubSeqProperties
  <2> HIDE DEF a
  <2> QED
    BY <1>1, <2>3
<1>3. b \in Seq(S) /\ Len(b) = Len(s) - i /\ \A k \in 1 .. Len(s) - i : b[k] = s[i + k]
  <2>1. \A k \in i + 1 .. Len(s) : s[k] \in S
    BY <1>1
  <2>2. i + 1 \in Int /\ Len(s) \in Int
    BY <1>1
  <2>3. /\ b \in Seq(S)
        /\ Len(b) = IF i + 1 <= Len(s) THEN Len(s) - (i + 1) + 1 ELSE 0
        /\ \A k \in 1 .. Len(s) - (i + 1) + 1 : b[k] = s[i + 1 + k - 1]
    BY <2>1, <2>2, SubSeqProperties
  <2> HIDE DEF b
  <2>4. /\ Len(s) - (i + 1) + 1 = Len(s) - i
        /\ ~(i + 1 <= Len(s)) => Len(s) - i = 0
    BY <1>1
  <2>5. \A k \in 1 .. Len(s) - i : i + 1 + k - 1 = i + k
    BY <1>1
  <2>6. Len(b) = Len(s) - i /\ \A k \in 1 .. Len(s) - i : b[k] = s[i + 1 + k - 1]
    BY <2>3, <2>4
  <2> QED
    BY <2>3, <2>5, <2>6
<1>4. /\ a \o b \in Seq(S) /\ Len(a \o b) = Len(a) + Len(b)
      /\ \A k \in 1 .. Len(a) + Len(b) :
           (a \o b)[k] = IF k <= Len(a) THEN a[k] ELSE b[k - Len(a)]
  BY <1>2, <1>3, ConcatProperties
<1>5. Without(s, i) = a \o b
  BY DEF Without
<1> HIDE DEF a, b
<1>6. Len(a) + Len(b) = Len(s) - 1
  BY <1>1, <1>2, <1>3
<1>7. ASSUME NEW k \in 1 .. Len(s) - 1
      PROVE  (a \o b)[k] = IF k < i THEN s[k] ELSE s[k + 1]
  <2>1. CASE k < i
    BY <1>1, <1>2, <1>4, <1>6, <2>1
  <2>2. CASE ~ (k < i)
    <3>1. k - Len(a) \in 1 .. Len(s) - i /\ i + (k - Len(a)) = k + 1
      BY <1>1, <1>2, <2>2
    <3> QED
      BY <1>1, <1>2, <1>3, <1>4, <1>6, <2>2, <3>1
  <2> QED
    BY <2>1, <2>2
<1> QED
  BY <1>4, <1>5, <1>6, <1>7

(* What stays in a queue is what was there.                                 *)
LEMMA FewerAllIn ==
  ASSUME NEW S, NEW s \in Seq(S), NEW i \in 1 .. Len(s), NEW kinds, AllIn(s, kinds)
  PROVE  AllIn(Without(s, i), kinds)
<1>1. /\ Len(Without(s, i)) = Len(s) - 1
      /\ \A k \in 1 .. Len(s) - 1 : Without(s, i)[k] = IF k < i THEN s[k] ELSE s[k + 1]
  BY WithoutElements
<1>2. \A k \in 1 .. Len(s) - 1 : k \in 1 .. Len(s) /\ k + 1 \in 1 .. Len(s)
  OBVIOUS
<1> QED
  BY <1>1, <1>2 DEF AllIn

LEMMA RestAllIn ==
  ASSUME answers \in Seq(Kinds), NEW n \in Nat, n <= Len(answers), NEW kinds,
         AllIn(answers, kinds)
  PROVE  AllIn(Rest(n), kinds)
<1>1. Len(answers) \in Nat
  OBVIOUS
<1>2. \A i \in 1 .. Len(answers) - n : i + n \in 1 .. Len(answers)
  BY <1>1
<1>3. /\ Len(Rest(n)) = Len(answers) - n
      /\ \A i \in 1 .. Len(answers) - n : Rest(n)[i] = answers[i + n]
  BY RestElements
<1> QED
  BY <1>2, <1>3 DEF AllIn

LEMMA MoreElements ==
  ASSUME NEW S, NEW s \in Seq(S), NEW e \in S
  PROVE  /\ Append(s, e) \in Seq(S) /\ Len(Append(s, e)) = Len(s) + 1
         /\ Len(s) \in Nat
         /\ \A i \in 1 .. Len(s) + 1 :
              Append(s, e)[i] = IF i = Len(s) + 1 THEN e ELSE s[i]
OBVIOUS

LEMMA MoreAllIn ==
  ASSUME NEW S, NEW s \in Seq(S), NEW e \in S, NEW kinds, AllIn(s, kinds), e \in kinds
  PROVE  AllIn(Append(s, e), kinds)
BY MoreElements DEF AllIn

(* The order of the answers survives what the client overlooks and loses    *)
(* and what the server adds.                                                *)
LEMMA RestOrderly ==
  ASSUME answers \in Seq(Kinds), NEW n \in Nat, n <= Len(answers), Orderly(answers),
         \A i \in 1 .. n : answers[i] \in Unrelated
  PROVE  Orderly(Rest(n)) /\ (HasAccept(Rest(n)) <=> HasAccept(answers))
<1>0. Len(answers) \in Nat
  OBVIOUS
<1>1. /\ Len(Rest(n)) = Len(answers) - n
      /\ \A i \in 1 .. Len(answers) - n : Rest(n)[i] = answers[i + n]
  BY RestElements
<1>2. \A i \in 1 .. Len(answers) : answers[i] = "accept" => i - n \in 1 .. Len(answers) - n
  BY <1>0 DEF Unrelated
<1>3. HasAccept(Rest(n)) <=> HasAccept(answers)
  <2>1. ASSUME NEW i \in 1 .. Len(answers), answers[i] = "accept" PROVE HasAccept(Rest(n))
    <3>1. i - n \in 1 .. Len(answers) - n /\ (i - n) + n = i
      BY <1>0, <1>2, <2>1
    <3> QED
      BY <1>1, <2>1, <3>1 DEF HasAccept
  <2>2. ASSUME NEW i \in 1 .. Len(answers) - n, Rest(n)[i] = "accept" PROVE HasAccept(answers)
    <3>1. i + n \in 1 .. Len(answers)
      BY <1>0
    <3> QED
      BY <1>1, <2>2, <3>1 DEF HasAccept
  <2> QED
    BY <1>1, <2>1, <2>2 DEF HasAccept
<1>4. Orderly(Rest(n))
  <2> SUFFICES ASSUME NEW i \in 1 .. Len(answers) - n
               PROVE  /\ Rest(n)[i] = "accept" =>
                           \A j \in i + 1 .. Len(answers) - n : Rest(n)[j] \in {"foreign", "sequenced"}
                      /\ Rest(n)[i] = "sequenced" =>
                           \E j \in 1 .. i - 1 : Rest(n)[j] = "accept"
    BY <1>1 DEF Orderly
  <2>1. i + n \in 1 .. Len(answers) /\ Rest(n)[i] = answers[i + n]
    BY <1>0, <1>1
  <2>2. ASSUME answers[i + n] = "accept", NEW j \in i + 1 .. Len(answers) - n
        PROVE  Rest(n)[j] \in {"foreign", "sequenced"}
    <3>1. j + n \in (i + n) + 1 .. Len(answers) /\ j \in 1 .. Len(answers) - n
      BY <1>0
    <3> QED
      BY <1>1, <2>1, <2>2, <3>1 DEF Orderly
  <2>3. ASSUME answers[i + n] = "sequenced"
        PROVE  \E j \in 1 .. i - 1 : Rest(n)[j] = "accept"
    <3>1. PICK j \in 1 .. (i + n) - 1 : answers[j] = "accept"
      BY <2>1, <2>3 DEF Orderly
    <3>2. j - n \in 1 .. i - 1 /\ j - n \in 1 .. Len(answers) - n /\ (j - n) + n = j
      BY <1>0, <1>2, <3>1
    <3> QED
      BY <1>1, <3>1, <3>2
  <2> QED
    BY <2>1, <2>2, <2>3
<1> QED
  BY <1>3, <1>4

LEMMA FewerOrderly ==
  ASSUME answers \in Seq(Kinds), NEW i \in 1 .. Len(answers), answers[i] # "accept",
         Orderly(answers)
  PROVE  /\ Orderly(Without(answers, i))
         /\ HasAccept(Without(answers, i)) <=> HasAccept(answers)
<1> DEFINE w == Without(answers, i)
           n == Len(answers)
           old(k) == IF k < i THEN k ELSE k + 1
           new(k) == IF k < i THEN k ELSE k - 1
<1>1. n \in Nat /\ i \in Int
  OBVIOUS
<1>2. Len(w) = n - 1 /\ \A k \in 1 .. n - 1 : w[k] = answers[old(k)]
  BY WithoutElements
<1> HIDE DEF w
<1>3. \A k \in 1 .. n - 1 : old(k) \in 1 .. n
  BY <1>1
<1>4. \A k \in 1 .. n : k # i => new(k) \in 1 .. n - 1 /\ old(new(k)) = k
  BY <1>1
<1>5. HasAccept(w) <=> HasAccept(answers)
  <2>1. ASSUME NEW k \in 1 .. n, answers[k] = "accept" PROVE HasAccept(w)
    <3>1. new(k) \in 1 .. n - 1 /\ old(new(k)) = k
      BY <1>4, <2>1
    <3>2. w[new(k)] = answers[k]
      BY <1>2, <3>1
    <3> HIDE DEF new
    <3> QED
      BY <1>2, <2>1, <3>1, <3>2 DEF HasAccept
  <2>2. ASSUME NEW k \in 1 .. n - 1, w[k] = "accept" PROVE HasAccept(answers)
    <3>1. old(k) \in 1 .. n /\ answers[old(k)] = "accept"
      BY <1>2, <1>3, <2>2
    <3> QED
      BY <3>1 DEF HasAccept
  <2> QED
    BY <1>2, <2>1, <2>2 DEF HasAccept
<1>6. Orderly(w)
  <2> SUFFICES ASSUME NEW k \in 1 .. n - 1
               PROVE  /\ w[k] = "accept" =>
                           \A j \in k + 1 .. n - 1 : w[j] \in {"foreign", "sequenced"}
                      /\ w[k] = "sequenced" => \E j \in 1 .. k - 1 : w[j] = "accept"
    BY <1>2 DEF Orderly
  <2>1. old(k) \in 1 .. n /\ w[k] = answers[old(k)]
    BY <1>2, <1>3
  <2>2. ASSUME w[k] = "accept", NEW j \in k + 1 .. n - 1
        PROVE  w[j] \in {"foreign", "sequenced"}
    <3>1. j \in 1 .. n - 1 /\ old(j) \in old(k) + 1 .. n
      BY <1>1
    <3>2. w[j] = answers[old(j)]
      BY <1>2, <3>1
    <3> HIDE DEF old
    <3> QED
      BY <2>1, <2>2, <3>1, <3>2 DEF Orderly
  <2>3. ASSUME w[k] = "sequenced"
        PROVE  \E j \in 1 .. k - 1 : w[j] = "accept"
    <3>1. PICK j \in 1 .. old(k) - 1 : answers[j] = "accept"
      <4> HIDE DEF old
      <4> QED
        BY <2>1, <2>3 DEF Orderly
    <3>2. j \in 1 .. n /\ j # i
      BY <1>1, <2>1, <3>1
    <3>3. new(j) \in 1 .. k - 1
      BY <1>1, <3>1, <3>2
    <3>4. new(j) \in 1 .. n - 1 /\ w[new(j)] = answers[j]
      BY <1>2, <1>4, <3>2
    <3> QED
      BY <3>1, <3>3, <3>4
  <2> QED
    BY <2>2, <2>3
<1> QED
  BY <1>5, <1>6 DEF w

LEMMA MoreOrderly ==
  ASSUME answers \in Seq(Kinds), NEW e \in Kinds, Orderly(answers),
         \/ e = "foreign"
         \/ e = "sequenced" /\ HasAccept(answers)
         \/ e # "sequenced" /\ AllIn(answers, Unrelated)
  PROVE  /\ Orderly(Append(answers, e))
         /\ HasAccept(Append(answers, e)) <=> HasAccept(answers) \/ e = "accept"
<1> DEFINE a == Append(answers, e)
           n == Len(answers)
<1>1. n \in Nat /\ Len(a) = n + 1
      /\ \A i \in 1 .. n + 1 : a[i] = IF i = n + 1 THEN e ELSE answers[i]
  BY MoreElements
<1> HIDE DEF a, n
<1>2. HasAccept(a) <=> HasAccept(answers) \/ e = "accept"
  <2>1. \A i \in 1 .. n + 1 : i \in 1 .. n \/ i = n + 1
    BY <1>1
  <2>2. n + 1 \in 1 .. n + 1 /\ \A i \in 1 .. n : i \in 1 .. n + 1 /\ i # n + 1
    BY <1>1
  <2> QED
    BY <1>1, <2>1, <2>2 DEF HasAccept, n
<1>3. Orderly(a)
  <2> SUFFICES ASSUME NEW i \in 1 .. n + 1
               PROVE  /\ a[i] = "accept" =>
                           \A j \in i + 1 .. n + 1 : a[j] \in {"foreign", "sequenced"}
                      /\ a[i] = "sequenced" => \E j \in 1 .. i - 1 : a[j] = "accept"
    BY <1>1 DEF Orderly
  <2>1. ASSUME a[i] = "accept", NEW j \in i + 1 .. n + 1
        PROVE  a[j] \in {"foreign", "sequenced"}
    <3>1. i \in 1 .. n /\ answers[i] = "accept"
      BY <1>1, <2>1
    <3>2. CASE j = n + 1
      BY <1>1, <3>1, <3>2 DEF AllIn, Unrelated, n
    <3>3. CASE j # n + 1
      <4>1. j \in i + 1 .. n /\ a[j] = answers[j]
        BY <1>1, <3>3
      <4> QED
        BY <3>1, <4>1 DEF Orderly, n
    <3> QED
      BY <3>2, <3>3
  <2>2. ASSUME a[i] = "sequenced"
        PROVE  \E j \in 1 .. i - 1 : a[j] = "accept"
    <3>1. CASE i = n + 1
      <4>1. PICK j \in 1 .. n : answers[j] = "accept"
        BY <1>1, <2>2, <3>1 DEF HasAccept, n
      <4> QED
        BY <1>1, <3>1, <4>1
    <3>2. CASE i # n + 1
      <4>1. i \in 1 .. n /\ answers[i] = "sequenced"
        BY <1>1, <2>2, <3>2
      <4>2. PICK j \in 1 .. i - 1 : answers[j] = "accept"
        BY <4>1 DEF Orderly, n
      <4> QED
        BY <1>1, <4>1, <4>2
    <3> QED
      BY <3>1, <3>2
  <2> QED
    BY <2>1, <2>2
<1> QED
  BY <1>2, <1>3 DEF a

LEMMA UnrelatedOrderly ==
  ASSUME NEW queue, AllIn(queue, Unrelated)
  PROVE  Orderly(queue) /\ ~HasAccept(queue)
BY DEF AllIn, Orderly, HasAccept, Unrelated
------------------------------------------------------------------------------
(* What the network and the server do.                                      *)
LEMMA NetworkIsExplained ==
  ASSUME OrderInv, Network
  PROVE  OrderInv'
<1> USE DEF OrderInv, QueuesOK
<1>0. /\ hostAt = "outside" /\ ~Over /\ UNCHANGED <<state, hostAt>>
  BY DEF Network, Lasts, hostVars
<1>1. state # "protocol_error"
  BY <1>0 DEF Over
<1>2. SUFFICES /\ QueuesOK'
               /\ ~disordered' => ~disordered
               /\ ~disordered' /\ InOrder => InOrder'
  BY <1>0, <1>1 DEF Explained, Left, ErrorIsExplained
<1>3. CASE Answer
  <2>0. /\ requests # <<>> /\ requests' = Tail(requests) /\ disordered' = disordered
        /\ Head(requests) = requests[1] /\ Len(requests) \in Nat \ {0}
    BY <1>3, EmptySeq DEF Answer
  <2>1. /\ Tail(requests) \in Seq(Requests) /\ Len(Tail(requests)) = Len(requests) - 1
        /\ \A i \in 1 .. Len(requests) - 1 : Tail(requests)[i] = requests[i + 1]
    BY <2>0, HeadTailProperties
  <2>2. PICK e \in Kinds : /\ answers' = Append(answers, e)
                           /\ \/ /\ Head(requests) = "getchallenge" /\ e = "challenge"
                                 /\ verdict' = verdict
                              \/ /\ Head(requests) = "connect" /\ e \in {"accept", "reject"}
                                 /\ verdict' = e /\ verdict \in {"undecided", e}
    BY <1>3 DEF Answer, Kinds
  <2>3. QueuesOK'
    BY <2>0, <2>1, <2>2, MoreElements
  <2>4. ASSUME AllIn(requests, {"getchallenge"})
        PROVE  AllIn(requests', {"getchallenge"}) /\ e = "challenge" /\ verdict' = verdict
    <3>1. \A i \in 1 .. Len(requests) - 1 : i + 1 \in 1 .. Len(requests)
      BY <2>0
    <3> QED
      BY <2>0, <2>1, <2>2, <2>4, <3>1 DEF AllIn
  <2>5. Asking => Asking'
    BY <2>2, <2>4, MoreAllIn DEF Asking, Unrelated
  <2>6. ASSUME Asked PROVE Asked'
    <3>1. verdict = "undecided" /\ AllIn(answers, Unrelated) /\ ~HasAccept(answers)
      BY <2>0, <2>6, UnrelatedOrderly DEF Asked
    <3>2. Orderly(answers') /\ (HasAccept(answers') <=> e = "accept")
      BY <2>2, <2>6, <3>1, MoreOrderly DEF Asked
    <3>3. \A i \in 1 .. Len(requests') : requests'[i] = "connect" => i = Len(requests')
      <4>1. ASSUME NEW i \in 1 .. Len(requests) - 1, requests'[i] = "connect"
            PROVE  i = Len(requests) - 1
        <5>1. i + 1 \in 1 .. Len(requests) /\ requests[i + 1] = "connect"
          BY <2>0, <2>1, <4>1
        <5> QED
          BY <2>0, <2>6, <5>1 DEF Asked
      <4> QED
        BY <2>0, <2>1, <4>1
    <3>4. e # "challenge" => requests' = <<>>
      <4>0. 1 \in 1 .. Len(requests)
        BY <2>0
      <4>1. e # "challenge" => 1 = Len(requests)
        BY <2>0, <2>2, <2>6, <4>0 DEF Asked
      <4> QED
        BY <2>0, <2>1, <4>1, EmptySeq
    <3>5. e = "challenge" => AllIn(answers', Unrelated)
      BY <2>2, <3>1, MoreAllIn DEF Unrelated
    <3> QED
      BY <2>2, <3>1, <3>2, <3>3, <3>4, <3>5 DEF Asked
  <2>7. ~Granted
    BY <2>0 DEF Granted
  <2> QED
    BY <1>0, <2>0, <2>3, <2>5, <2>6, <2>7 DEF InOrder
<1>4. CASE SendPacket
  <2>1. /\ verdict = "accept" /\ answers' = Append(answers, "sequenced")
        /\ UNCHANGED <<requests, verdict, disordered>>
    BY <1>4 DEF SendPacket
  <2>2. QueuesOK'
    BY <2>1, MoreElements DEF Kinds
  <2>3. ~Asking
    BY <2>1 DEF Asking
  <2>4. Asked => Asked'
    BY <2>1, MoreOrderly DEF Asked, Kinds
  <2>5. Granted => Granted'
    BY <2>1, MoreAllIn DEF Granted, Kinds
  <2> QED
    BY <1>0, <2>1, <2>2, <2>3, <2>4, <2>5 DEF InOrder
<1>5. CASE Lose
  <2>1. ASSUME NEW i \in DOMAIN requests, requests' = Without(requests, i),
               UNCHANGED <<answers, disordered, verdict>>
        PROVE  QueuesOK' /\ (InOrder => InOrder')
    <3>0. i \in 1 .. Len(requests) /\ Len(requests) \in Nat \ {0} /\ requests # <<>>
      BY <2>1, LenProperties
    <3>1. /\ requests' \in Seq(Requests) /\ Len(requests') = Len(requests) - 1
          /\ \A k \in 1 .. Len(requests) - 1 :
               requests'[k] = IF k < i THEN requests[k] ELSE requests[k + 1]
      BY <2>1, <3>0, WithoutElements
    <3>2. QueuesOK'
      BY <2>1, <3>1
    <3>3. Asking => Asking'
      BY <2>1, <3>0, FewerAllIn DEF Asking
    <3>4. Asked => Asked'
      <4>1. ASSUME Asked, NEW k \in 1 .. Len(requests) - 1, requests'[k] = "connect"
            PROVE  k = Len(requests) - 1
        <5>1. k \in 1 .. Len(requests) /\ k + 1 \in 1 .. Len(requests)
          BY <3>0
        <5> QED
          BY <3>0, <3>1, <4>1, <5>1 DEF Asked
      <4> QED
        BY <2>1, <3>0, <3>1, <4>1 DEF Asked
    <3>5. ~Granted
      BY <3>0 DEF Granted
    <3> QED
      BY <1>0, <3>2, <3>3, <3>4, <3>5 DEF InOrder
  <2>2. ASSUME NEW i \in DOMAIN answers, answers' = Without(answers, i),
               UNCHANGED <<requests, verdict>>
        PROVE  /\ answers' \in Seq(Kinds)
               /\ answers[i] # "accept" /\ InOrder => InOrder'
    <3>0. i \in 1 .. Len(answers)
      BY <2>2, LenProperties
    <3>1. answers' \in Seq(Kinds)
      BY <2>2, <3>0, WithoutElements
    <3>2. (Asking => Asking') /\ (Granted => Granted')
      BY <2>2, <3>0, FewerAllIn DEF Asking, Granted
    <3>3. ASSUME answers[i] # "accept", Asked PROVE Asked'
      BY <2>2, <3>0, <3>3, FewerAllIn, FewerOrderly DEF Asked
    <3> QED
      BY <1>0, <3>1, <3>2, <3>3 DEF InOrder
  <2> QED
    BY <1>5, <2>1, <2>2 DEF Lose
<1>6. CASE Disorder
  <2>1. disordered' = TRUE /\ verdict' = verdict
    BY <1>6 DEF Disorder
  <2>2. ASSUME NEW S, NEW s \in Seq(S), NEW q \in Delayed(s) PROVE q \in Seq(S)
    <3>1. ASSUME NEW i \in DOMAIN s
          PROVE  Append(s, s[i]) \in Seq(S) /\ Append(Without(s, i), s[i]) \in Seq(S)
      <4>1. i \in 1 .. Len(s) /\ s[i] \in S
        BY LenProperties, ElementOfSeq
      <4>2. Without(s, i) \in Seq(S)
        BY <4>1, WithoutElements
      <4> QED
        BY <4>1, <4>2, MoreElements
    <3> QED
      BY <3>1 DEF Delayed
  <2>3. requests' \in Seq(Requests) /\ answers' \in Seq(Kinds)
    BY <1>6, <2>2 DEF Disorder
  <2> QED
    BY <2>1, <2>3
<1>7. CASE Intrude
  <2>1. /\ answers' = Append(answers, "foreign")
        /\ UNCHANGED <<requests, verdict, disordered>>
    BY <1>7 DEF Intrude
  <2>2. QueuesOK'
    BY <2>1, MoreElements DEF Kinds
  <2>3. Asking => Asking'
    BY <2>1, MoreAllIn DEF Asking, Kinds, Unrelated
  <2>4. Asked => Asked'
    BY <2>1, MoreOrderly, MoreAllIn DEF Asked, Kinds, Unrelated
  <2>5. Granted => Granted'
    BY <2>1, MoreAllIn DEF Granted, Kinds
  <2> QED
    BY <1>0, <2>1, <2>2, <2>3, <2>4, <2>5 DEF InOrder
<1> QED
  BY <1>3, <1>4, <1>5, <1>6, <1>7 DEF Network
------------------------------------------------------------------------------
(* What the client does.                                                    *)
LEMMA ForgettingIsExplained ==
  ASSUME OrderInv, Forgets, UNCHANGED <<verdict, disordered>>, hostAt' # "polling",
         \/ Left'
         \/ state' \notin {"idle", "waiting_for_challenge", "waiting_for_authentication",
                          "waiting_for_connect_response", "waiting_for_netchan"},
         state' = "protocol_error" => ErrorIsExplained' \/ state = "protocol_error"
  PROVE  OrderInv'
BY EmptySeq DEF OrderInv, QueuesOK, Explained, ErrorIsExplained, Forgets, InOrder, Left

(* The stages that wait take what has arrived.                              *)
LEMMA OverlookingIsExplained ==
  ASSUME OrderInv, NEW kinds, Overlooks(kinds),
         UNCHANGED <<state, hostAt, requests, verdict, disordered>>,
         state = "waiting_for_connect_response" => kinds = Unrelated
  PROVE  OrderInv'
<1>1. PICK n \in Nat : /\ n <= Len(answers) /\ answers' = Rest(n)
                       /\ \A i \in 1 .. n : answers[i] \in kinds
  BY HandshakeAssumption DEF Overlooks
<1>2. answers' \in Seq(Kinds)
  BY <1>1, RestElements DEF OrderInv, QueuesOK
<1>3. (Asking => Asking') /\ (Granted => Granted')
  BY <1>1, RestAllIn DEF Asking, Granted, OrderInv, QueuesOK
<1>4. state = "waiting_for_connect_response" /\ Asked => Asked'
  BY <1>1, RestAllIn, RestOrderly DEF Asked, OrderInv, QueuesOK
<1> QED
  BY <1>2, <1>3, <1>4 DEF OrderInv, QueuesOK, Explained, ErrorIsExplained, InOrder, Left

(* A connect follows the requests for a challenge.                          *)
LEMMA ConnectIsExplained ==
  ASSUME OrderInv, NEW session \in BOOLEAN, SendConnect(session), hostAt' = "outside",
         UNCHANGED <<verdict, disordered>>, ~Left,
         state \in {"waiting_for_challenge", "waiting_for_authentication"},
         \/ answers' = answers
         \/ \E n \in Nat : n <= Len(answers) /\ answers' = Rest(n)
  PROVE  OrderInv'
<1> USE DEF OrderInv, QueuesOK
<1>1. requests' = Append(requests, "connect")
  BY DEF SendConnect
<1>2. answers' \in Seq(Kinds) /\ (AllIn(answers, Unrelated) => AllIn(answers', Unrelated))
  BY RestElements, RestAllIn
<1>3. requests' \in Seq(Requests)
  BY <1>1, MoreElements DEF Requests
<1>4. ASSUME Asking PROVE Asked'
  <2>1. AllIn(answers', Unrelated) /\ ~HasAccept(answers') /\ Orderly(answers')
    BY <1>2, <1>4, UnrelatedOrderly DEF Asking
  <2>2. ASSUME NEW i \in 1 .. Len(requests'), requests'[i] = "connect"
        PROVE  i = Len(requests')
    BY <1>1, <1>4, <2>2, MoreElements DEF Asking, AllIn, Requests
  <2> QED
    BY <1>4, <2>1, <2>2 DEF Asking, Asked
<1>5. state' \in {"request_sent", "waiting_for_connect_response"}
  BY DEF SendConnect
<1> QED
  BY <1>2, <1>3, <1>4, <1>5 DEF Explained, ErrorIsExplained, InOrder, Left

LEMMA HostIsExplained ==
  ASSUME OrderInv, Host
  PROVE  OrderInv'
<1> USE DEF OrderInv, QueuesOK
<1>0. UNCHANGED <<verdict, disordered>>
  BY DEF Host, Beside
<1>a. ASSUME NEW s, Ends(s), hostAt = "outside",
             s \notin {"idle", "waiting_for_challenge", "waiting_for_authentication",
                       "waiting_for_connect_response", "waiting_for_netchan"},
             s = "protocol_error" => disordered
      PROVE  OrderInv'
  BY <1>0, <1>a, ForgettingIsExplained DEF Ends, ErrorIsExplained
<1>b. ASSUME SendRequest, hostAt' = hostAt, hostAt = "outside",
             answers' = answers \/ Overlooks({"foreign"}),
             state \in {"idle", "waiting_for_challenge"}
      PROVE  OrderInv'
  <2>1. requests' = Append(requests, "getchallenge") /\ state' = "waiting_for_challenge"
    BY <1>b DEF SendRequest
  <2>2. answers' \in Seq(Kinds) /\ (AllIn(answers, Unrelated) => AllIn(answers', Unrelated))
    <3>1. CASE answers' = answers
      BY <3>1
    <3>2. CASE Overlooks({"foreign"})
      BY <3>2, HandshakeAssumption, RestElements, RestAllIn DEF Overlooks
    <3> QED
      BY <1>b, <3>1, <3>2
  <2>3. requests' \in Seq(Requests)
    BY <2>1, MoreElements DEF Requests
  <2>4. Asking => Asking'
    BY <1>0, <2>1, <2>2, MoreAllIn DEF Asking, Requests
  <2> QED
    BY <1>0, <1>b, <2>1, <2>2, <2>3, <2>4 DEF Explained, ErrorIsExplained, InOrder, Left
<1>c. ASSUME NEW kinds, NEW n \in Decisive(kinds)
      PROVE  /\ n \in 1 .. Len(answers) /\ answers[n] \in Kinds \ kinds
             /\ n \in Nat /\ n <= Len(answers)
             /\ \A i \in 1 .. n - 1 : answers[i] \in kinds
  <2>1. n \in 1 .. Len(answers) /\ n \in Nat /\ n <= Len(answers)
    BY HandshakeAssumption DEF Decisive
  <2> QED
    BY <2>1, ElementOfSeq DEF Decisive
<1>1. CASE Start
  <2>1. CASE SocketFails
    BY <1>1, <1>a, <2>1 DEF Start, Waits, SocketFails
  <2>2. CASE ~SocketFails
    BY <1>1, <1>b, <2>2 DEF Start, Waits
  <2> QED
    BY <2>1, <2>2
<1>2. CASE UpdateChallenge
  <2>0. hostAt = "outside" /\ state = "waiting_for_challenge" /\ ~Left
    BY <1>2 DEF UpdateChallenge, Waits, Left
  <2>1. CASE \E s \in {"timed_out", "challenge_received", "network_error"} : Ends(s)
    BY <1>a, <2>0, <2>1
  <2>2. CASE \E n \in Decisive({"foreign"}) : answers[n] # "challenge" /\ Ends("protocol_error")
    <3>1. PICK n \in Decisive({"foreign"}) : answers[n] # "challenge" /\ Ends("protocol_error")
      BY <2>2
    <3>2. disordered
      BY <1>c, <2>0, <3>1 DEF Explained, InOrder, Asking, AllIn, Unrelated
    <3> QED
      BY <1>a, <2>0, <3>1, <3>2
  <2>3. CASE \E n \in Decisive({"foreign"}) : Challenged /\ answers' = Rest(n)
    <3>1. PICK n \in Decisive({"foreign"}) : Challenged /\ answers' = Rest(n)
      BY <2>3
    <3>2. n \in Nat /\ n <= Len(answers)
      BY <1>c
    <3>3. CASE route = "prepared"
      <4>1. SendConnect(FALSE) /\ hostAt' = "outside"
        BY <2>0, <3>1, <3>3 DEF Challenged
      <4> QED
        BY <1>0, <2>0, <3>1, <3>2, <4>1, ConnectIsExplained
    <3>4. CASE route # "prepared"
      <4>1. state' = "waiting_for_authentication" /\ hostAt' = "polling" /\ requests' = requests
        BY <3>1, <3>4 DEF Challenged
      <4>2. answers' \in Seq(Kinds) /\ (Asking => Asking')
        BY <1>0, <3>1, <3>2, <4>1, RestElements, RestAllIn DEF Asking
      <4> QED
        BY <1>0, <2>0, <4>1, <4>2 DEF Explained, ErrorIsExplained, InOrder, Left
    <3> QED
      BY <3>3, <3>4
  <2>4. CASE /\ Overlooks({"foreign"}) /\ hostAt' = hostAt
             /\ IF Due THEN SendRequest
                       ELSE UNCHANGED <<state, requests, attempts, sinceRequest>>
    <3>1. CASE Due
      BY <1>b, <2>0, <2>4, <3>1
    <3>2. CASE ~Due
      BY <1>0, <2>0, <2>4, <3>2, OverlookingIsExplained
    <3> QED
      BY <3>1, <3>2
  <2> QED
    BY <1>2, <2>1, <2>2, <2>3, <2>4 DEF UpdateChallenge, SocketFails
<1>3. CASE BeginPoll
  BY <1>0, <1>3 DEF BeginPoll, Waits, Explained, ErrorIsExplained, InOrder, Left, Asking, Asked,
       Granted
<1>4. CASE FinishPoll
  <2>0. hostAt = "polling" /\ hostAt' = "outside" /\ state = "waiting_for_authentication" /\ ~Left
    BY <1>4 DEF FinishPoll, Explained, Left
  <2>1. CASE UNCHANGED <<state, requests, answers>>
    BY <1>0, <2>0, <2>1 DEF Explained, ErrorIsExplained, InOrder, Left, Asking
  <2>2. CASE /\ state' \in {"authentication_failed", "authentication_timed_out", "network_error"}
             /\ Forgets
    BY <1>0, <2>0, <2>2, ForgettingIsExplained
  <2>3. CASE SendConnect(TRUE) /\ answers' = answers
    BY <1>0, <2>0, <2>3, ConnectIsExplained
  <2> QED
    BY <1>4, <2>1, <2>2, <2>3 DEF FinishPoll
<1>5. CASE UpdateResponse
  <2>0. hostAt = "outside" /\ state = "waiting_for_connect_response" /\ ~Left
    BY <1>5 DEF UpdateResponse, Waits, Left
  <2>1. CASE \E s \in {"connect_response_timed_out", "rejected", "accepted", "network_error"} :
               Ends(s)
    BY <1>a, <2>0, <2>1
  <2>2. CASE \E n \in Decisive(Unrelated) :
               answers[n] \notin {"accept", "reject"} /\ Ends("protocol_error")
    <3>1. PICK n \in Decisive(Unrelated) :
            answers[n] \notin {"accept", "reject"} /\ Ends("protocol_error")
      BY <2>2
    <3>2. /\ n \in 1 .. Len(answers) /\ answers[n] = "sequenced"
          /\ \A i \in 1 .. n - 1 : answers[i] # "accept"
      BY <1>c, <3>1 DEF Kinds, Unrelated
    <3>3. disordered
      BY <2>0, <3>2 DEF Explained, InOrder, Asked, Orderly
    <3> QED
      BY <1>a, <2>0, <3>1, <3>3
  <2>3. CASE \E n \in Decisive(Unrelated) :
               answers[n] = "accept" /\ Accepted /\ answers' = Rest(n)
    <3>1. PICK n \in Decisive(Unrelated) :
            answers[n] = "accept" /\ Accepted /\ answers' = Rest(n)
      BY <2>3
    <3>2. n \in 1 .. Len(answers) /\ n \in Nat /\ n <= Len(answers) /\ Len(answers) \in Nat
      BY <1>c
    <3>3. /\ Rest(n) \in Seq(Kinds) /\ Len(Rest(n)) = Len(answers) - n
          /\ \A i \in 1 .. Len(answers) - n : Rest(n)[i] = answers[i + n]
      BY <3>2, RestElements
    <3>4. ASSUME Asked PROVE Granted'
      <4>1. HasAccept(answers) /\ requests = <<>>
        BY <3>1, <3>2, <3>4 DEF HasAccept, Asked
      <4>2. ASSUME NEW i \in 1 .. Len(answers) - n
            PROVE  answers[i + n] \in {"foreign", "sequenced"}
        <5>1. i + n \in n + 1 .. Len(answers)
          BY <3>2
        <5> QED
          BY <3>1, <3>2, <3>4, <5>1 DEF Asked, Orderly
      <4> QED
        BY <3>1, <3>3, <4>1, <4>2 DEF Granted, AllIn, Accepted
    <3>5. state' = "waiting_for_netchan" /\ hostAt' = "outside" /\ requests' = requests
      BY <2>0, <3>1 DEF Accepted
    <3> QED
      BY <1>0, <2>0, <3>1, <3>3, <3>4, <3>5 DEF Explained, ErrorIsExplained, InOrder, Left
  <2>4. CASE Overlooks(Unrelated) /\ Unchanging
    BY <1>0, <2>4, OverlookingIsExplained DEF Unchanging
  <2> QED
    BY <1>5, <2>1, <2>2, <2>3, <2>4 DEF UpdateResponse, SocketFails
<1>6. CASE UpdateNetchan
  <2>0. hostAt = "outside" /\ state = "waiting_for_netchan" /\ ~Left
    BY <1>6 DEF UpdateNetchan, Waits, Left
  <2>1. CASE \E s \in {"netchan_timed_out", "network_error"} : Ends(s)
    BY <1>a, <2>0, <2>1
  <2>2. CASE \E n \in Decisive({"foreign"}) :
               Ends(IF answers[n] = "sequenced" THEN "netchan_bootstrap_complete"
                                                ELSE "protocol_error")
    <3>1. PICK n \in Decisive({"foreign"}) :
            Ends(IF answers[n] = "sequenced" THEN "netchan_bootstrap_complete"
                                             ELSE "protocol_error")
      BY <2>2
    <3>2. answers[n] # "sequenced" => disordered
      BY <1>c, <2>0 DEF Explained, InOrder, Granted, AllIn
    <3> QED
      BY <1>a, <2>0, <3>1, <3>2
  <2>3. CASE Overlooks({"foreign"}) /\ Unchanging
    BY <1>0, <2>0, <2>3, OverlookingIsExplained DEF Unchanging
  <2> QED
    BY <1>6, <2>1, <2>2, <2>3 DEF UpdateNetchan, SocketFails
<1>7. CASE Cancel \/ RequestClose
  <2>1. CASE UNCHANGED <<state, hostAt, requests, answers>>
    BY <1>0, <2>1 DEF Explained, ErrorIsExplained, InOrder, Left, Asking, Asked, Granted
  <2>2. CASE state' = "cancelled" /\ Forgets /\ hostAt = "outside" /\ hostAt' = "outside"
    BY <1>0, <2>2, ForgettingIsExplained
  <2> QED
    BY <1>7, <2>1, <2>2 DEF Cancel, RequestClose, LeavesStage
<1>8. CASE Dismantle
  BY <1>0, <1>8, ForgettingIsExplained DEF Dismantle, LeavesStage, Left
<1>9. CASE StopWorker \/ AwaitWorker \/ JoinWorker
  BY <1>0, <1>9 DEF StopWorker, AwaitWorker, JoinWorker, hostVars, Explained, ErrorIsExplained,
       Left
<1> QED
  BY <1>1, <1>2, <1>3, <1>4, <1>5, <1>6, <1>7, <1>8, <1>9 DEF Host, Update

(* With a correct server only a network that copies, overtakes or loses the *)
(* ACCEPT makes a protocol error: not the client's own repeated question.   *)
THEOREM ErrorsAreExplained == Spec => []ErrorIsExplained
<1>1. Init => OrderInv
  <2> SUFFICES ASSUME Init PROVE OrderInv
    OBVIOUS
  <2>1. requests = <<>> /\ answers = <<>> /\ Len(<<>>) = 0
    BY DEF Init
  <2>2. requests \in Seq(Requests) /\ answers \in Seq(Kinds)
    BY <2>1, EmptySeq
  <2>3. AllIn(requests, {"getchallenge"}) /\ AllIn(answers, Unrelated)
    BY <2>1 DEF AllIn
  <2> QED
    BY <2>2, <2>3 DEF Init, OrderInv, QueuesOK, Explained, ErrorIsExplained, InOrder, Asking
<1>2. OrderInv /\ [Next]_vars => OrderInv'
  <2> SUFFICES ASSUME OrderInv, [Next]_vars PROVE OrderInv'
    OBVIOUS
  <2>1. CASE Host
    BY <2>1, HostIsExplained
  <2>2. CASE Network
    BY <2>2, NetworkIsExplained
  <2>3. CASE Worker \/ Tick \/ UNCHANGED vars
    BY <2>3 DEF Worker, Tick, vars, hostVars, networkVars, OrderInv, QueuesOK, Explained,
         ErrorIsExplained, InOrder, Left, Asking, Asked, Granted
  <2> QED
    BY <2>1, <2>2, <2>3 DEF Next
<1>3. OrderInv => ErrorIsExplained
  BY DEF OrderInv, Explained
<1> QED
  BY <1>1, <1>2, <1>3, PTL DEF Spec
=============================================================================
