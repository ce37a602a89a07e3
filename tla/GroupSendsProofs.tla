--------------------------- MODULE GroupSendsProofs ---------------------------
(***************************************************************************)
(* TLAPS proofs about the operations pipeline of GroupSends, for every set *)
(* of origins, every number of decisions, events and attempts: nothing     *)
(* leaves without the human decision it needs (HumanGate), and nothing is  *)
(* done twice or misreported (HonestOutcomes).                             *)
(*                                                                         *)
(* Forty actions write the same few tables, so what a step may do to the   *)
(* work items, artifacts and events is stated once, as the summaries       *)
(* KeepsGate, KeepsImages and KeepsText; the parts of the invariant are    *)
(* proved from those.                                                      *)
(***************************************************************************)
EXTENDS GroupSends, TLAPS

ItemShape ==
    /\ DOMAIN item = Slots
    /\ \A s \in Slots : DOMAIN item[s] = {"st", "n", "late"}
    /\ DOMAIN art = Slots

CallShape ==
    /\ \A c \in call : DOMAIN c = {"s", "tok", "ph"} /\ c.s \in ImageSlots
    /\ made \in [ImageSlots -> Nat]

NoticeShape ==
    /\ DOMAIN nitem = ImageSlots
    /\ DOMAIN notice = ImageSlots
    /\ DOMAIN attempt = ImageSlots
    /\ DOMAIN wire = ImageSlots
    /\ cards \in [ImageSlots -> Nat]

ReviewShape ==
    /\ DOMAIN action = ImageSlots
    /\ clicks \subseteq ImageSlots \X Decisions

Shape == /\ ItemShape
         /\ inbox \in Seq(WorkbenchEvents)
         /\ CallShape
         /\ NoticeShape
         /\ ReviewShape
         /\ sends \in Nat

(* Which decision stands behind what: a reviewed artifact's status is a    *)
(* decision the log has, a group message is queued once confirmed and      *)
(* announced once what it carries is approved, and the worker's calls and  *)
(* the text sender's come after that.                                      *)
GateInv ==
    ~Automatic =>
      /\ \A s \in Reviewed :
            art[s] \in Decisions =>
               Has(s, art[s]) \/ (s = "visual" /\ GenerationAuthorized)
      /\ call # {} => Has("visual", "approved") \/ GenerationAuthorized
      /\ \A s \in ImageSlots : item[s].st = "completed" => Has(s, "approved")
      /\ item["send"].st = "queued" => Has("send", "confirmed")
      /\ Has("send", "ready") =>
            Has("send", "confirmed") /\ Has(Carried, "approved")
      /\ texter # "none" \/ sends > 0 => Has("send", "ready")

(* A group message that was never claimed has not been sent; one that was  *)
(* is never fresh again, so the claim happens once.                        *)
Fresh == {"none", "awaiting_publish", "queued"}

TextInv ==
    /\ sends <= 1
    /\ item["send"].st \in Fresh =>
          /\ sends = 0
          /\ texter = "none"
          /\ ~Has("send", "sent")
          /\ ~Has("send", "failed")
    /\ texter \in {"none", "calling", "sent", "failed", "send_ambiguous"}
    /\ texter \in {"calling", "failed"} => sends = 0
    /\ texter = "sent" => sends = 1
    /\ Has("send", "sent") => sends = 1 /\ texter = "none"
    /\ Has("send", "failed") => sends = 0 /\ texter = "none"

(* One call per image request at most; a request that is (again) queued    *)
(* has never been answered, and an image exists only where one was.        *)
Untried == {"none", "queued"}

MadeInv ==
    /\ \A s \in ImageSlots : made[s] <= 1
    /\ \A c, d \in call : c.s = d.s => c = d
    /\ \A s \in ImageSlots : item[s].st \in Untried =>
          made[s] = 0 /\ \A c \in call : c.s # s
    /\ \A c \in call :
          /\ c.ph \in {"calling", "retryable"} => made[c.s] = 0
          /\ c.ph \in {"generated", "stored"} => made[c.s] = 1
    /\ ~Automatic => \A s \in ImageSlots : art[s] # "none" => made[s] = 1

(* The card of a notice, which only a direct conversation has: not sent    *)
(* before the notice is claimed, and what is recorded is what happened.    *)
NoticeInv ==
    \A s \in ImageSlots :
       /\ notice[s] # "none" \/ nitem[s] # "none" => origin = "direct"
       /\ cards[s] <= 1
       /\ notice[s] \in {"none", "pending"} =>
             wire[s] = "none" /\ cards[s] = 0
       /\ wire[s] \in {"uploading", "uploaded", "refused", "sending"} => cards[s] = 0
       /\ wire[s] = "sent" => cards[s] = 1
       /\ notice[s] = "delivered" => wire[s] = "none" /\ cards[s] = 1
       /\ notice[s] = "failed" => wire[s] = "none" /\ cards[s] = 0

(* A click, and then the action row, stand for a recorded decision.        *)
ActionInv ==
    /\ \A k \in clicks : Has(k[1], k[2])
    /\ \A s \in ImageSlots : action[s] # "none" => Has(s, action[s])

PipelineInv == /\ Shape
               /\ GateInv
               /\ TextInv
               /\ MadeInv
               /\ NoticeInv
               /\ ActionInv
-----------------------------------------------------------------------------
(***************************************************************************)
(* What a step may do to the request, its work items and its artifacts     *)
(***************************************************************************)

(* No step rewrites the request or removes an event, and none gives an     *)
(* artifact a decision, an item a completion or a message its queueing     *)
(* without the event that stands for it.                                   *)
KeepsGate ==
    /\ origin' = origin
    /\ facts' = facts
    /\ log \subseteq log'
    /\ ~Automatic =>
         /\ \A s \in Reviewed : art'[s] \in Decisions =>
               \/ art'[s] = art[s]
               \/ <<s, art'[s]>> \in log'
               \/ s = "visual" /\ GenerationAuthorized
         /\ \A s \in ImageSlots : item'[s].st = "completed" =>
               item[s].st = "completed" \/ <<s, "approved">> \in log'
         /\ item'["send"].st = "queued" =>
               item["send"].st = "queued" \/ <<"send", "confirmed">> \in log'
         /\ <<"send", "ready">> \in log' =>
               \/ Has("send", "ready")
               \/ Has("send", "confirmed") /\ Has(Carried, "approved")

(* No step of others makes an image request fresh again, nor an image.     *)
KeepsImages ==
    \A s \in ImageSlots :
       /\ item'[s].st \in Untried => item[s].st \in Untried
       /\ ~Automatic => (art'[s] # "none" => art[s] # "none")

(* No step of others makes a group message fresh again, nor its outcome.   *)
KeepsText ==
    /\ item'["send"].st \in Fresh => item["send"].st \in Fresh
    /\ <<"send", "sent">> \in log' => Has("send", "sent")
    /\ <<"send", "failed">> \in log' => Has("send", "failed")

Keeps == ItemShape' /\ KeepsGate /\ KeepsImages /\ KeepsText

(* An item in which the work item of s got the status x.                   *)
Moved(new, s, x) ==
    /\ DOMAIN new = Slots
    /\ \A t \in Slots : DOMAIN new[t] = {"st", "n", "late"}
    /\ \A t \in Slots : t # s => new[t] = item[t]
    /\ new[s].st = x

LEMMA MoveMoves ==
  ASSUME ItemShape, NEW s \in Slots, NEW x
  PROVE  Moved(Move(s, x), s, x)
BY DEF ItemShape, Move, Moved

LEMMA CreatedMoves ==
  ASSUME ItemShape, NEW s \in Slots
  PROVE  \/ Created(s) = item
         \/ item[s].st = "none" /\ Moved(Created(s), s, InitialStatus(s))
<1> DEFINE new == [Absent EXCEPT !.st = InitialStatus(s)]
<1>1. PICK r : r = new
  OBVIOUS
<1>2. DOMAIN r = {"st", "n", "late"} /\ r.st = InitialStatus(s)
  BY <1>1 DEF Absent
<1>3. CASE Exists(s)
  BY <1>3 DEF Created, KeyFree
<1>4. CASE ~Exists(s)
  <2>1. PICK i : i = [item EXCEPT ![s] = r]
    OBVIOUS
  <2>2. Created(s) = i
    BY <1>1, <1>4, <2>1 DEF Created, KeyFree
  <2>3. Moved(i, s, InitialStatus(s))
    BY <1>2, <2>1 DEF Moved, ItemShape
  <2> QED
    BY <1>4, <2>2, <2>3 DEF Exists
<1> QED
  BY <1>3, <1>4

LEMMA Initials ==
  ASSUME NEW s \in Slots
  PROVE  /\ InitialStatus(s) \in {"awaiting_review", "awaiting_publish", "queued"}
         /\ s = "send" => InitialStatus(s) = "awaiting_publish"
BY DEF InitialStatus, Slots

LEMMA SlotFacts ==
  /\ ImageSlots \subseteq Slots
  /\ Reviewed \subseteq Slots
  /\ ImageSlots \subseteq Reviewed
  /\ {"root", "evidence", "visual", "image", "revision", "text", "send"} \subseteq Slots
  /\ "send" \notin Reviewed
  /\ \A s \in ImageSlots : s \notin {"root", "evidence", "visual", "text", "send"}
  /\ Carried \in Reviewed
  /\ Carried # "visual"
BY DEF ImageSlots, Reviewed, Slots, Carried

LEMMA InitPipeline == Init => PipelineInv
<1> SUFFICES ASSUME Init PROVE PipelineInv
  OBVIOUS
<1> USE DEF Init, ItemsInit, ImagesInit, ReturnInit, SendsInit
<1>1. Shape
  BY DEF Shape, ItemShape, CallShape, NoticeShape, ReviewShape, Absent
<1>2. \A s \in Slots : item[s].st = "none" /\ art[s] = "none"
  BY DEF Absent
<1>3. GateInv
  BY <1>2, SlotFacts DEF GateInv, Has, Decisions
<1>4. TextInv
  BY DEF TextInv, Has
<1>5. MadeInv
  BY <1>2, SlotFacts DEF MadeInv
<1>6. NoticeInv /\ ActionInv
  BY DEF NoticeInv, ActionInv
<1> QED
  BY <1>1, <1>3, <1>4, <1>5, <1>6 DEF PipelineInv
-----------------------------------------------------------------------------
(***************************************************************************)
(* The control plane's own steps                                           *)
(***************************************************************************)

LEMMA StayKeeps ==
  ASSUME ItemShape, UNCHANGED <<origin, facts, item, art, log>>
  PROVE  Keeps
BY SlotFacts DEF Keeps, ItemShape, KeepsGate, KeepsImages, KeepsText, Has

LEMMA CreateKeeps ==
  ASSUME ItemShape, NEW s \in Slots, CreateWorkItem(s)
  PROVE  Keeps
<1>1. UNCHANGED <<origin, facts, art>>
  BY DEF CreateWorkItem
<1>2. \/ item' = Created(s) /\ log' = log
      \/ item' = item /\ log' = log \cup {<<s, "denied_by_policy">>}
  BY DEF CreateWorkItem, Denied
<1>3. \/ item' = item
      \/ item[s].st = "none" /\ Moved(item', s, InitialStatus(s)) /\ log' = log
  BY <1>2, CreatedMoves
<1>4. ItemShape'
  BY <1>1, <1>3 DEF ItemShape, Moved
<1>5. KeepsGate
  <2>1. \A t \in ImageSlots : item'[t].st = "completed" => item[t].st = "completed"
    BY <1>3, SlotFacts, Initials DEF Moved
  <2>2. item'["send"].st = "queued" => item["send"].st = "queued"
    BY <1>3, SlotFacts, Initials DEF Moved
  <2>3. log \subseteq log' /\ (<<"send", "ready">> \in log' => Has("send", "ready"))
    BY <1>2 DEF Has
  <2> QED
    BY <1>1, <2>1, <2>2, <2>3 DEF KeepsGate
<1>6. KeepsImages
  BY <1>1, <1>3, SlotFacts DEF KeepsImages, Moved, Untried
<1>7. KeepsText
  <2>1. item'["send"].st \in Fresh => item["send"].st \in Fresh
    BY <1>3, SlotFacts DEF Moved, Fresh
  <2> QED
    BY <1>2, <2>1 DEF KeepsText, Has
<1> QED
  BY <1>4, <1>5, <1>6, <1>7 DEF Keeps

LEMMA CreateTextKeeps ==
  ASSUME ItemShape, CreateText
  PROVE  Keeps
<1>1. UNCHANGED <<origin, facts, log>>
  BY DEF CreateText
<1>2. item' = item \/ Moved(item', "text", "awaiting_review")
  BY MoveMoves, SlotFacts DEF CreateText
<1>3. /\ DOMAIN art' = Slots
      /\ \A s \in Slots : s # "text" => art'[s] = art[s]
      /\ art'["text"] = art["text"] \/ art'["text"] = "pending"
  BY SlotFacts DEF CreateText, ItemShape
<1>4. ItemShape'
  BY <1>2, <1>3 DEF ItemShape, Moved
<1>5. \A s \in ImageSlots \cup {"send"} : item'[s] = item[s]
  BY <1>2, SlotFacts DEF Moved
<1>6. \A s \in Reviewed : art'[s] \in Decisions => art'[s] = art[s]
  BY <1>3, SlotFacts DEF Decisions
<1>7. \A s \in ImageSlots : art'[s] = art[s]
  BY <1>3, SlotFacts
<1> QED
  BY <1>1, <1>4, <1>5, <1>6, <1>7 DEF Keeps, KeepsGate, KeepsImages, KeepsText, Has

LEMMA PublishKeeps ==
  ASSUME ItemShape, PublishDaily \/ PublishBrief
  PROVE  Keeps
<1>1. Automatic /\ PublishCard
  BY DEF PublishDaily, PublishBrief, DailyEvidence, BriefEvidence, Automatic
<1>2. UNCHANGED <<origin, facts>>
  BY <1>1 DEF PublishCard
<1>3. DOMAIN art' = Slots
  BY <1>1 DEF PublishCard, CardImage, ItemShape
<1>4. /\ DOMAIN item' = Slots
      /\ \A s \in Slots : DOMAIN item'[s] = {"st", "n", "late"}
      /\ \A s \in Slots : s \notin {"image", "send"} => item'[s] = item[s]
      /\ item'["image"].st = item["image"].st \/ item'["image"].st = "completed"
      /\ item'["send"].st = item["send"].st \/ item["send"].st = "none"
  BY <1>1, SlotFacts DEF PublishCard, ItemShape
<1>5. KeepsGate
  BY <1>1, <1>2 DEF KeepsGate, PublishCard
<1>6. KeepsImages
  BY <1>1, <1>4, SlotFacts DEF KeepsImages, Untried, ImageSlots
<1>7. KeepsText
  <2>1. item'["send"].st \in Fresh => item["send"].st \in Fresh
    BY <1>4 DEF Fresh
  <2> QED
    BY <1>1, <2>1 DEF KeepsText, PublishCard, Has
<1> QED
  BY <1>3, <1>4, <1>5, <1>6, <1>7 DEF Keeps, ItemShape

(* A review gives the artifact the decision that the log receives.         *)
LEMMA ReviewKeeps ==
  ASSUME ItemShape, NEW s \in Reviewed, NEW d \in Decisions, art[s] # "none",
         RecordReview(s, d), UNCHANGED <<origin, facts>>
  PROVE  Keeps
<1>1. Moved(item', s, StatusAfterReview(d))
  BY MoveMoves, SlotFacts DEF RecordReview
<1>2. /\ StatusAfterReview(d) \in {"completed", "cancelled", "awaiting_review"}
      /\ StatusAfterReview(d) = "completed" => d = "approved"
  BY DEF StatusAfterReview, Decisions
<1>3. /\ DOMAIN art' = Slots
      /\ art'[s] = d
      /\ \A t \in Slots : t # s => art'[t] = art[t]
      /\ log' = log \cup {<<s, d>>}
  BY SlotFacts DEF RecordReview, ItemShape
<1>4. ItemShape'
  BY <1>1, <1>3 DEF ItemShape, Moved
<1>5. item'["send"] = item["send"]
  BY <1>1, SlotFacts DEF Moved
<1>6. KeepsGate
  <2>1. \A t \in Reviewed : art'[t] = art[t] \/ <<t, art'[t]>> \in log'
    BY <1>3, SlotFacts
  <2>2. \A t \in ImageSlots : item'[t].st = "completed" =>
           item[t].st = "completed" \/ <<t, "approved">> \in log'
    BY <1>1, <1>2, <1>3, SlotFacts DEF Moved
  <2>3. log \subseteq log' /\ (<<"send", "ready">> \in log' => Has("send", "ready"))
    BY <1>3, SlotFacts DEF Has
  <2> QED
    BY <1>5, <2>1, <2>2, <2>3 DEF KeepsGate
<1>7. KeepsImages
  BY <1>1, <1>2, <1>3, SlotFacts DEF KeepsImages, Moved, Untried
<1>8. KeepsText
  BY <1>3, <1>5, SlotFacts DEF KeepsText, Has
<1> QED
  BY <1>4, <1>6, <1>7, <1>8 DEF Keeps

(* A confirmation queues a message that was not claimed yet, and is logged. *)
LEMMA ConfirmKeeps ==
  ASSUME ItemShape, NEW yes \in BOOLEAN, Confirmable, RecordConfirmation(yes),
         UNCHANGED <<origin, facts>>
  PROVE  Keeps
<1>1. PICK x : x = IF yes THEN "queued" ELSE "cancelled"
  OBVIOUS
<1>2. Moved(item', "send", x)
  BY <1>1, MoveMoves, SlotFacts DEF RecordConfirmation
<1>3. art' = art /\ log' = log \cup {<<"send", IF yes THEN "confirmed" ELSE "declined">>}
  BY DEF RecordConfirmation
<1>4. x = "queued" => <<"send", "confirmed">> \in log'
  BY <1>1, <1>3
<1>5. /\ log \subseteq log'
      /\ <<"send", "ready">> \in log' => Has("send", "ready")
      /\ <<"send", "sent">> \in log' => Has("send", "sent")
      /\ <<"send", "failed">> \in log' => Has("send", "failed")
  BY <1>3 DEF Has
<1>6. \A t \in ImageSlots : item'[t] = item[t]
  BY <1>2, SlotFacts DEF Moved
<1>7. item["send"].st \in Fresh
  BY DEF Confirmable, Fresh
<1>8. item'["send"].st = "queued" => <<"send", "confirmed">> \in log'
  BY <1>2, <1>4 DEF Moved
<1> QED
  BY <1>2, <1>3, <1>5, <1>6, <1>7, <1>8
     DEF Keeps, ItemShape, KeepsGate, KeepsImages, KeepsText, Moved

(* A move of one item to a status that nothing is tied to, with an event   *)
(* that nothing is tied to.                                                *)
Harmless == {"failed", "cancelled", "processing", "awaiting_review"}

LEMMA MoveKeeps ==
  ASSUME ItemShape, NEW s \in Slots, NEW x,
         Moved(item', s, x), x \in Harmless \/ s \notin ImageSlots \cup {"send"},
         UNCHANGED <<origin, facts, art>>,
         log \subseteq log',
         \A e \in {"ready", "sent", "failed"} : <<"send", e>> \in log' => Has("send", e)
  PROVE  Keeps
<1>1. ItemShape'
  BY DEF ItemShape, Moved
<1>2. \A t \in ImageSlots \cup {"send"} : item'[t] = item[t] \/ item'[t].st \in Harmless
  BY SlotFacts DEF Moved
<1>3. \A t \in ImageSlots \cup {"send"} :
         item'[t] = item[t] \/ item'[t].st \notin {"none", "awaiting_publish", "queued", "completed"}
  BY <1>2 DEF Harmless
<1>4. KeepsGate
  BY <1>3 DEF KeepsGate
<1>5. KeepsImages
  BY <1>3 DEF KeepsImages, Untried
<1>6. KeepsText
  BY <1>3 DEF KeepsText, Fresh
<1> QED
  BY <1>1, <1>4, <1>5, <1>6 DEF Keeps

LEMMA CancelKeeps ==
  ASSUME ItemShape, NEW s \in Slots, CancelItem(s), UNCHANGED <<origin, facts>>
  PROVE  Keeps
<1>1. Moved(item', s, "cancelled") /\ UNCHANGED <<art, log>>
  BY MoveMoves DEF CancelItem
<1> QED
  BY <1>1, MoveKeeps DEF Harmless, Has
LEMMA EventTypes ==
  ASSUME NEW e \in WorkbenchEvents
  PROVE  /\ e.s \in Slots
         /\ e.op \in {"review", "confirm", "cancel", "owner", "attachment"}
         /\ e.op = "review" => e.s \in Reviewed /\ e.d \in Decisions
BY SlotFacts DEF WorkbenchEvents, Decisions

LEMMA ExecuteKeeps ==
  ASSUME ItemShape, inbox \in Seq(WorkbenchEvents), ExecuteEvent
  PROVE  Keeps
<1>1. inbox # << >>
  BY DEF ExecuteEvent, Unprocessed
<1>2. PICK e \in WorkbenchEvents : e = Head(inbox)
  BY <1>1
<1>3. UNCHANGED <<origin, facts>>
  BY DEF ExecuteEvent
<1>4. CASE e.op = "review"
  <2>1. RecordReview(e.s, e.d) /\ Reviewable(e.s, e.d, "any")
    BY <1>2, <1>4 DEF ExecuteEvent, Executable
  <2>2. art[e.s] # "none"
    BY <2>1 DEF Reviewable
  <2> QED
    BY <1>3, <1>4, <2>1, <2>2, EventTypes, ReviewKeeps
<1>5. CASE e.op = "confirm"
  <2>1. Confirmable /\ RecordConfirmation(TRUE)
    BY <1>2, <1>5 DEF ExecuteEvent, Executable
  <2> QED
    BY <1>3, <2>1, ConfirmKeeps
<1>6. CASE e.op = "cancel"
  <2>1. CancelItem(e.s)
    BY <1>2, <1>6 DEF ExecuteEvent
  <2> QED
    BY <1>3, <2>1, EventTypes, CancelKeeps
<1>7. CASE e.op \in {"owner", "attachment"}
  <2>1. UNCHANGED <<item, art, log>>
    BY <1>2, <1>7 DEF ExecuteEvent, ChangeOwner, AddAttachment
  <2> QED
    BY <1>3, <2>1, StayKeeps
<1> QED
  BY <1>4, <1>5, <1>6, <1>7, EventTypes

LEMMA SyncKeeps ==
  ASSUME ItemShape, SyncWrite
  PROVE  Keeps
<1>1. Moved(item', "root", snap) /\ UNCHANGED <<origin, facts, art, log>>
  BY MoveMoves, SlotFacts DEF SyncWrite
<1> QED
  BY <1>1, MoveKeeps, SlotFacts DEF Has

LEMMA UploadKeeps ==
  ASSUME ItemShape, UploadDaily \/ UploadBrief
  PROVE  Keeps
<1>1. UNCHANGED <<origin, facts, item, art>> /\ log' = log \cup {<<"image", "uploaded">>}
  BY DEF UploadDaily, UploadBrief
<1> QED
  BY <1>1, SlotFacts DEF Keeps, ItemShape, KeepsGate, KeepsImages, KeepsText, Has

LEMMA ItemsKeep ==
  ASSUME Shape, ItemsNext
  PROVE  Keeps /\ inbox' \in Seq(WorkbenchEvents)
<1> USE DEF Shape
<1>1. CASE StartParent \/ StartImage \/ StartSend \/ SubmitTextSend
           \/ \E s \in Slots : StartChild(s)
  <2>1. PICK s \in Slots : CreateWorkItem(s)
    BY <1>1, SlotFacts DEF StartParent, StartImage, StartSend, SubmitTextSend, StartChild
  <2> QED
    BY <2>1, CreateKeeps DEF CreateWorkItem
<1>2. CASE CreateText
  BY <1>2, CreateTextKeeps DEF CreateText
<1>3. CASE UploadDaily \/ UploadBrief
  BY <1>3, UploadKeeps DEF UploadDaily, UploadBrief
<1>4. CASE PublishDaily \/ PublishBrief
  BY <1>4, PublishKeeps DEF PublishDaily, PublishBrief, PublishCard
<1>5. ASSUME NEW s \in Reviewed, NEW d \in Decisions, Review(s, d)
      PROVE  Keeps /\ inbox' \in Seq(WorkbenchEvents)
  <2>1. /\ RecordReview(s, d)
        /\ art[s] # "none"
        /\ UNCHANGED <<origin, facts, inbox>>
    BY <1>5 DEF Review, Reviewable
  <2> QED
    BY <2>1, ReviewKeeps
<1>6. ASSUME NEW yes \in BOOLEAN, Confirm(yes)
      PROVE  Keeps /\ inbox' \in Seq(WorkbenchEvents)
  BY <1>6, ConfirmKeeps DEF Confirm
<1>7. ASSUME NEW e \in WorkbenchEvents, RecordEvent(e)
      PROVE  Keeps /\ inbox' \in Seq(WorkbenchEvents)
  BY <1>7, StayKeeps DEF RecordEvent
<1>8. CASE ExecuteEvent
  BY <1>8, ExecuteKeeps DEF ExecuteEvent
<1>9. CASE MarkProcessed \/ CrashBeforeMark \/ DenyEvent
  BY <1>9, StayKeeps DEF MarkProcessed, CrashBeforeMark, DenyEvent, Unprocessed
<1>10. CASE SyncRead
  BY <1>10, StayKeeps DEF SyncRead
<1>11. CASE SyncWrite
  BY <1>11, SyncKeeps DEF SyncWrite
<1> QED
  BY <1>1, <1>2, <1>3, <1>4, <1>5, <1>6, <1>7, <1>8, <1>9, <1>10, <1>11 DEF ItemsNext

-----------------------------------------------------------------------------
(***************************************************************************)
(* What follows from the summaries                                         *)
(***************************************************************************)

(* A step that places no call before the brief is approved and no text     *)
(* before the message is announced keeps the gates.                        *)
LEMMA GateKept ==
  ASSUME Shape, GateInv, KeepsGate,
         call' # {} => call # {} \/ art["visual"] = "approved",
         texter' # "none" \/ sends' > 0 => texter # "none" \/ sends > 0 \/ Has("send", "ready")
  PROVE  GateInv'
<1>1. Automatic' = Automatic /\ GenerationAuthorized' = GenerationAuthorized /\ Carried' = Carried
  BY DEF KeepsGate, Automatic, GenerationAuthorized, Carried
<1> SUFFICES ASSUME ~Automatic
             PROVE  GateInv'
  BY <1>1 DEF GateInv
<1>2. \A s \in Reviewed : art'[s] \in Decisions =>
         <<s, art'[s]>> \in log' \/ (s = "visual" /\ GenerationAuthorized)
  BY DEF GateInv, KeepsGate, Has
<1>3. call' # {} => <<"visual", "approved">> \in log' \/ GenerationAuthorized
  BY DEF GateInv, KeepsGate, Has, Reviewed, Decisions
<1>4. \A s \in ImageSlots : item'[s].st = "completed" => <<s, "approved">> \in log'
  BY DEF GateInv, KeepsGate, Has
<1>5. item'["send"].st = "queued" => <<"send", "confirmed">> \in log'
  BY DEF GateInv, KeepsGate, Has
<1>6. <<"send", "ready">> \in log' =>
         <<"send", "confirmed">> \in log' /\ <<Carried, "approved">> \in log'
  BY DEF GateInv, KeepsGate, Has
<1>7. texter' # "none" \/ sends' > 0 => <<"send", "ready">> \in log'
  BY DEF GateInv, KeepsGate, Has
<1> QED
  BY <1>1, <1>2, <1>3, <1>4, <1>5, <1>6, <1>7 DEF GateInv, Has

LEMMA TextKept ==
  ASSUME TextInv, KeepsText, UNCHANGED sendVars
  PROVE  TextInv'
BY DEF TextInv, KeepsText, sendVars, Has

LEMMA MadeKept ==
  ASSUME MadeInv, KeepsGate, KeepsImages, UNCHANGED imageVars
  PROVE  MadeInv'
BY DEF MadeInv, KeepsGate, KeepsImages, imageVars, Automatic

LEMMA NoticeKept ==
  ASSUME NoticeInv, NoticeShape, KeepsGate, UNCHANGED noticeVars
  PROVE  NoticeInv' /\ NoticeShape'
BY DEF NoticeInv, NoticeShape, KeepsGate, noticeVars

LEMMA ActionKept ==
  ASSUME ActionInv, ReviewShape, KeepsGate, UNCHANGED <<action, clicks>>
  PROVE  ActionInv' /\ ReviewShape'
BY DEF ActionInv, ReviewShape, KeepsGate, Has

(* A step that only Keeps leaves the invariant as it is.                   *)
LEMMA KeepsPipeline ==
  ASSUME PipelineInv, Keeps, inbox' \in Seq(WorkbenchEvents),
         UNCHANGED <<imageVars, noticeVars, action, clicks, sendVars>>
  PROVE  PipelineInv'
<1>1. GateInv'
  BY GateKept DEF PipelineInv, Keeps, imageVars, sendVars
<1>2. TextInv' /\ MadeInv'
  BY TextKept, MadeKept DEF PipelineInv, Keeps
<1>3. NoticeInv' /\ NoticeShape' /\ ActionInv' /\ ReviewShape'
  BY NoticeKept, ActionKept DEF PipelineInv, Keeps, Shape
<1>4. CallShape' /\ ItemShape' /\ (sends \in Nat)'
  BY DEF PipelineInv, Shape, CallShape, Keeps, imageVars, sendVars
<1> QED
  BY <1>1, <1>2, <1>3, <1>4 DEF PipelineInv, Shape

LEMMA ItemsPipeline ==
  ASSUME PipelineInv, ItemsNext, UNCHANGED <<imageVars, returnVars, sendVars>>
  PROVE  PipelineInv'
BY ItemsKeep, KeepsPipeline DEF PipelineInv, returnVars, reviewVars
-----------------------------------------------------------------------------
(***************************************************************************)
(* Evidence, briefs and images                                             *)
(***************************************************************************)

LEMMA EvidenceKeeps ==
  ASSUME ItemShape, RunEvidence
  PROVE  Keeps
<1>1. UNCHANGED <<origin, facts, log>>
  BY DEF RunEvidence
<1>2. \/ Moved(item', "evidence", "completed") /\ art' = [art EXCEPT !["evidence"] = "not_required"]
      \/ Moved(item', "evidence", "failed") /\ art' = art
  BY MoveMoves, SlotFacts DEF RunEvidence, EvidenceFound, EvidenceFails
<1>3. /\ DOMAIN art' = Slots
      /\ \A s \in Reviewed : art'[s] = art[s]
  BY <1>2, SlotFacts DEF ItemShape, Reviewed
<1>4. \A s \in ImageSlots \cup {"send"} : item'[s] = item[s]
  BY <1>2, SlotFacts DEF Moved
<1>5. ItemShape'
  BY <1>2, <1>3 DEF ItemShape, Moved
<1> QED
  BY <1>1, <1>3, <1>4, <1>5, SlotFacts DEF Keeps, KeepsGate, KeepsImages, KeepsText, Has

LEMMA BriefKeeps ==
  ASSUME ItemShape, DraftBrief
  PROVE  Keeps
<1>1. UNCHANGED <<origin, facts, log>>
  BY DEF DraftBrief
<1>2. PICK x : Moved(item', "visual", x)
  BY MoveMoves, SlotFacts DEF DraftBrief
<1>3. /\ DOMAIN art' = Slots
      /\ \A s \in Slots : s # "visual" => art'[s] = art[s]
      /\ art'["visual"] = BriefReview
  BY SlotFacts DEF DraftBrief, ItemShape
<1>4. BriefReview \in Decisions => BriefReview = art["visual"] \/ GenerationAuthorized
  BY DEF BriefReview, Decisions
<1>5. \A s \in ImageSlots \cup {"send"} : item'[s] = item[s]
  BY <1>2, SlotFacts DEF Moved
<1>6. ItemShape'
  BY <1>2, <1>3 DEF ItemShape, Moved
<1>7. \A s \in Reviewed : art'[s] \in Decisions =>
         art'[s] = art[s] \/ (s = "visual" /\ GenerationAuthorized)
  BY <1>3, <1>4, SlotFacts
<1> QED
  BY <1>1, <1>3, <1>5, <1>6, <1>7, SlotFacts DEF Keeps, KeepsGate, KeepsImages, KeepsText, Has

LEMMA BriefFailsKeeps ==
  ASSUME ItemShape, BriefFails
  PROVE  Keeps
<1>1. Moved(item', "visual", "failed") /\ UNCHANGED <<origin, facts, art, log>>
  BY MoveMoves, SlotFacts DEF BriefFails
<1> QED
  BY <1>1, SlotFacts, MoveKeeps DEF Harmless, Has

LEMMA LapseKeeps ==
  ASSUME ItemShape, NEW s \in ImageSlots, Lapse(s)
  PROVE  Keeps
<1>1. Moved(item', s, "processing") /\ UNCHANGED <<origin, facts, art, log>>
  BY SlotFacts DEF Lapse, ItemShape, Moved
<1> QED
  BY <1>1, SlotFacts, MoveKeeps DEF Harmless, Has

LEMMA StaleKeeps ==
  ASSUME ItemShape, NEW s \in ImageSlots, TerminalizeStale(s)
  PROVE  Keeps
<1>1. /\ Moved(item', s, "failed")
      /\ UNCHANGED <<origin, facts, art>>
      /\ log' = log \cup {<<s, "image_generation_outcome_ambiguous">>}
  BY MoveMoves, SlotFacts DEF TerminalizeStale
<1>2. \A e \in {"ready", "sent", "failed"} : <<"send", e>> \in log' => Has("send", e)
  BY <1>1, SlotFacts DEF Has
<1> QED
  BY <1>1, <1>2, SlotFacts, MoveKeeps DEF Harmless

LEMMA ClaimKeeps ==
  ASSUME ItemShape, NEW s \in ImageSlots, ClaimImage(s)
  PROVE  Keeps
<1>1. Moved(item', s, "processing") /\ UNCHANGED <<origin, facts, art, log>>
  BY SlotFacts DEF ClaimImage, ItemShape, Moved
<1> QED
  BY <1>1, SlotFacts, MoveKeeps DEF Harmless, Has

(* The claim places the one call of a request nobody has answered yet.     *)
LEMMA ClaimPipeline ==
  ASSUME PipelineInv, NEW s \in ImageSlots, ClaimImage(s), UNCHANGED <<returnVars, sendVars>>
  PROVE  PipelineInv'
<1> USE DEF PipelineInv, Shape
<1>1. Keeps
  BY ClaimKeeps
<1>2. PICK c : c = [s |-> s, tok |-> item[s].n + 1, ph |-> "calling"]
  OBVIOUS
<1>3. call' = call \cup {c} /\ made' = made /\ art["visual"] = "approved" /\ item[s].st = "queued"
  BY <1>2 DEF ClaimImage
<1>4. DOMAIN c = {"s", "tok", "ph"} /\ c.s = s /\ c.ph = "calling"
  BY <1>2
<1>5. CallShape'
  BY <1>3, <1>4 DEF CallShape
<1>6. item'[s].st = "processing" /\ \A t \in ImageSlots : t # s => item'[t] = item[t]
  BY SlotFacts DEF ClaimImage, ItemShape
<1>7. made[s] = 0 /\ \A d \in call : d.s # s
  BY <1>3 DEF MadeInv, Untried
<1>8. MadeInv'
  <2>1. \A t \in ImageSlots : item'[t].st \in Untried =>
           made'[t] = 0 /\ \A d \in call' : d.s # t
    BY <1>3, <1>4, <1>6 DEF MadeInv, Untried
  <2>2. \A d, e \in call' : d.s = e.s => d = e
    BY <1>3, <1>4, <1>7 DEF MadeInv
  <2>3. \A d \in call' : /\ d.ph \in {"calling", "retryable"} => made'[d.s] = 0
                         /\ d.ph \in {"generated", "stored"} => made'[d.s] = 1
    BY <1>3, <1>4, <1>7 DEF MadeInv
  <2>4. ~Automatic' => \A t \in ImageSlots : art'[t] # "none" => made'[t] = 1
    BY <1>3 DEF MadeInv, ClaimImage, Automatic
  <2> QED
    BY <1>3, <2>1, <2>2, <2>3, <2>4 DEF MadeInv
<1>9. GateInv'
  BY <1>1, <1>3, GateKept DEF Keeps, sendVars
<1>10. TextInv' /\ NoticeInv' /\ NoticeShape' /\ ActionInv' /\ ReviewShape'
  BY <1>1, TextKept, NoticeKept, ActionKept DEF Keeps, returnVars, reviewVars
<1>11. inbox' = inbox /\ sends' = sends
  BY DEF ClaimImage, sendVars
<1> QED
  BY <1>1, <1>5, <1>8, <1>9, <1>10, <1>11 DEF Keeps

(* A step of the call c: it is dropped, or continues as a call of the same *)
(* request in a phase that agrees with whether that was answered.          *)
LEMMA CallMade ==
  ASSUME MadeInv, CallShape, KeepsGate, NEW c \in call, NEW d,
         call' \subseteq (call \ {c}) \cup {d},
         DOMAIN d = {"s", "tok", "ph"}, d.s = c.s,
         d \in call' => /\ d.ph \in {"calling", "retryable"} => made'[c.s] = 0
                        /\ d.ph \in {"generated", "stored"} => made'[c.s] = 1,
         made' \in [ImageSlots -> Nat], made'[c.s] <= 1,
         \A s \in ImageSlots \ {c.s} :
            item'[s] = item[s] /\ art'[s] = art[s] /\ made'[s] = made[s],
         item'[c.s].st \in Untried => made'[c.s] = 0 /\ call' \subseteq call \ {c},
         ~Automatic => (art'[c.s] # "none" => made'[c.s] = 1)
  PROVE  MadeInv' /\ CallShape'
<1>1. c.s \in ImageSlots /\ \A e \in call \ {c} : e.s # c.s
  BY DEF MadeInv, CallShape
<1>2. CallShape'
  BY <1>1 DEF CallShape
<1>3. \A e \in call' : (e \in call /\ e.s # c.s) \/ e = d
  BY <1>1
<1>4. \A s \in ImageSlots : item'[s].st \in Untried =>
         made'[s] = 0 /\ \A e \in call' : e.s # s
  <2> TAKE s \in ImageSlots
  <2>1. CASE s = c.s
    BY <1>1, <2>1
  <2>2. CASE s # c.s
    BY <1>1, <1>3, <2>2 DEF MadeInv
  <2> QED
    BY <2>1, <2>2
<1>5. \A e, f \in call' : e.s = f.s => e = f
  BY <1>3 DEF MadeInv
<1>6. \A e \in call' : /\ e.ph \in {"calling", "retryable"} => made'[e.s] = 0
                       /\ e.ph \in {"generated", "stored"} => made'[e.s] = 1
  <2> TAKE e \in call'
  <2>1. CASE e = d
    BY <2>1
  <2>2. CASE e \in call /\ e.s # c.s
    BY <2>2 DEF MadeInv, CallShape
  <2> QED
    BY <1>3, <2>1, <2>2
<1>7. ~Automatic' => \A s \in ImageSlots : art'[s] # "none" => made'[s] = 1
  BY <1>1 DEF MadeInv, KeepsGate, Automatic
<1>8. \A s \in ImageSlots : made'[s] <= 1
  BY <1>1 DEF MadeInv
<1> QED
  BY <1>2, <1>4, <1>5, <1>6, <1>7, <1>8 DEF MadeInv

(* A step of a call that keeps the rest of the pipeline.                   *)
LEMMA CallPipeline ==
  ASSUME PipelineInv, MadeInv', CallShape', ItemShape', KeepsGate, KeepsText,
         call # {}, inbox' = inbox, UNCHANGED <<returnVars, sendVars>>
  PROVE  PipelineInv'
<1> USE DEF PipelineInv, Shape
<1>1. GateInv'
  BY GateKept DEF sendVars
<1>2. TextInv' /\ NoticeInv' /\ NoticeShape' /\ ActionInv' /\ ReviewShape' /\ (sends \in Nat)'
  BY TextKept, NoticeKept, ActionKept DEF returnVars, reviewVars, sendVars
<1> QED
  BY <1>1, <1>2

LEMMA CallFacts ==
  ASSUME MadeInv, CallShape, NEW c \in call
  PROVE  /\ DOMAIN c = {"s", "tok", "ph"}
         /\ c.s \in ImageSlots
         /\ item[c.s].st \notin Untried
         /\ made[c.s] \in Nat
         /\ made[c.s] <= 1
         /\ c.ph \in {"calling", "retryable"} => made[c.s] = 0
         /\ c.ph \in {"generated", "stored"} => made[c.s] = 1
         /\ ~Automatic => (art[c.s] # "none" => made[c.s] = 1)
BY DEF MadeInv, CallShape

LEMMA ProviderPipeline ==
  ASSUME PipelineInv, NEW c \in call, Provider(c), UNCHANGED <<returnVars, sendVars>>
  PROVE  PipelineInv'
<1> USE DEF PipelineInv, Shape
<1>1. /\ Keeps
      /\ inbox' = inbox /\ item' = item /\ art' = art
      /\ c.ph = "calling"
  BY StayKeeps DEF Provider, itemVars
<1>2. PICK ph : /\ ph \in {"retryable", "generated", "terminal", "ambiguous"}
                /\ Step(c, ph)
                /\ \/ ph # "generated" /\ made' = made
                   \/ ph # "retryable" /\ made' = [made EXCEPT ![c.s] = @ + 1]
  BY DEF Provider
<1>3. PICK d : d = [c EXCEPT !.ph = ph]
  OBVIOUS
<1>4. call' = (call \ {c}) \cup {d}
  BY <1>2, <1>3 DEF Step
<1>5. DOMAIN d = {"s", "tok", "ph"} /\ d.s = c.s /\ d.ph = ph
  BY <1>3, CallFacts
<1>6. /\ made' \in [ImageSlots -> Nat]
      /\ \A s \in ImageSlots \ {c.s} : made'[s] = made[s]
      /\ made'[c.s] <= 1
      /\ ph = "retryable" => made'[c.s] = 0
      /\ ph = "generated" => made'[c.s] = 1
      /\ ~Automatic => (art[c.s] # "none" => made'[c.s] = 1)
  BY <1>1, <1>2, CallFacts DEF CallShape
<1>7. MadeInv' /\ CallShape'
  BY <1>1, <1>2, <1>4, <1>5, <1>6, CallFacts, CallMade DEF Keeps
<1> QED
  BY <1>1, <1>7, CallPipeline DEF Keeps

LEMMA StorePipeline ==
  ASSUME PipelineInv, NEW c \in call, StoreImage(c), UNCHANGED <<returnVars, sendVars>>
  PROVE  PipelineInv'
<1> USE DEF PipelineInv, Shape
<1>1. /\ Keeps
      /\ inbox' = inbox /\ item' = item /\ art' = art /\ made' = made
      /\ c.ph = "generated"
  BY StayKeeps DEF StoreImage, itemVars
<1>2. PICK ph : ph \in {"stored", "terminal", "ambiguous"} /\ Step(c, ph)
  BY DEF StoreImage
<1>3. PICK d : d = [c EXCEPT !.ph = ph]
  OBVIOUS
<1>4. call' = (call \ {c}) \cup {d}
  BY <1>2, <1>3 DEF Step
<1>5. DOMAIN d = {"s", "tok", "ph"} /\ d.s = c.s /\ d.ph = ph
  BY <1>3, CallFacts
<1>6. made' \in [ImageSlots -> Nat]
  BY <1>1 DEF CallShape
<1>7. MadeInv' /\ CallShape'
  BY <1>1, <1>2, <1>4, <1>5, <1>6, CallFacts, CallMade DEF Keeps
<1> QED
  BY <1>1, <1>7, CallPipeline DEF Keeps

LEMMA CrashPipeline ==
  ASSUME PipelineInv, NEW c \in call, CrashWorker(c), UNCHANGED <<returnVars, sendVars>>
  PROVE  PipelineInv'
<1> USE DEF PipelineInv, Shape
<1>1. /\ Keeps
      /\ inbox' = inbox /\ item' = item /\ art' = art /\ made' = made
      /\ call' = call \ {c}
  BY StayKeeps DEF CrashWorker, itemVars
<1>2. made' \in [ImageSlots -> Nat]
  BY <1>1 DEF CallShape
<1>3. MadeInv' /\ CallShape'
  BY <1>1, <1>2, CallFacts, CallMade DEF Keeps
<1> QED
  BY <1>1, <1>3, CallPipeline DEF Keeps

(* An image is kept only by the worker whose request was answered.         *)
LEMMA PersistPipeline ==
  ASSUME PipelineInv, NEW c \in call, PersistImage(c), UNCHANGED <<returnVars, sendVars>>
  PROVE  PipelineInv'
<1> USE DEF PipelineInv, Shape
<1>1. PICK s \in ImageSlots : s = c.s
  BY CallFacts
<1>2. /\ Moved(item', s, "awaiting_review")
      /\ UNCHANGED <<origin, facts, inbox, made>>
      /\ log' = log \cup {<<s, "generated_image_created">>}
      /\ call' = call \ {c}
      /\ c.ph = "stored"
  BY <1>1, MoveMoves, SlotFacts DEF PersistImage
<1>3. /\ DOMAIN art' = Slots
      /\ \A t \in Slots : t # s => art'[t] = art[t]
      /\ art'[s] = "pending"
  BY <1>1, SlotFacts DEF PersistImage, ItemShape
<1>4. item'[s].st = "awaiting_review" /\ \A t \in Slots \ {s} : item'[t] = item[t]
  BY <1>2 DEF Moved
<1>5. ItemShape'
  BY <1>2, <1>3 DEF ItemShape, Moved
<1>6. KeepsGate
  <2>1. \A t \in Reviewed : art'[t] \in Decisions => art'[t] = art[t]
    BY <1>3, SlotFacts DEF Decisions
  <2>2. \A t \in ImageSlots : item'[t].st = "completed" => item[t].st = "completed"
    BY <1>4, SlotFacts
  <2>3. item'["send"] = item["send"]
    BY <1>4, SlotFacts
  <2>4. log \subseteq log' /\ (<<"send", "ready">> \in log' => Has("send", "ready"))
    BY <1>2, SlotFacts DEF Has
  <2> QED
    BY <1>2, <2>1, <2>2, <2>3, <2>4 DEF KeepsGate
<1>7. KeepsText
  BY <1>2, <1>4, SlotFacts DEF KeepsText, Has
<1>8. made' \in [ImageSlots -> Nat] /\ made'[c.s] = 1
  BY <1>2, CallFacts DEF CallShape
<1>9. MadeInv' /\ CallShape'
  BY <1>1, <1>2, <1>3, <1>4, <1>6, <1>8, SlotFacts, CallFacts, CallMade DEF Untried
<1> QED
  BY <1>2, <1>5, <1>6, <1>7, <1>9, CallPipeline

(* A failure queues the request again only when it was not answered.       *)
LEMMA FailurePipeline ==
  ASSUME PipelineInv, NEW c \in call, RecordFailure(c), UNCHANGED <<returnVars, sendVars>>
  PROVE  PipelineInv'
<1> USE DEF PipelineInv, Shape
<1>1. PICK s \in ImageSlots : s = c.s
  BY CallFacts
<1>2. UNCHANGED <<origin, facts, art, inbox, made>> /\ call' = call \ {c}
  BY DEF RecordFailure
<1>3. PICK x : x = IF ShouldRetry(c) THEN "queued" ELSE "failed"
  OBVIOUS
<1>4. \/ item' = item
      \/ Moved(item', s, x)
  BY <1>1, <1>3, MoveMoves, SlotFacts DEF RecordFailure
<1>5. log' = log \/ log' = log \cup {<<s, "image_generation_outcome_ambiguous">>}
  BY <1>1 DEF RecordFailure
<1>6. x = "failed" \/ (x = "queued" /\ made[c.s] = 0)
  BY <1>3, CallFacts DEF ShouldRetry
<1>7. ItemShape'
  BY <1>2, <1>4 DEF ItemShape, Moved
<1>8. \A t \in Slots \ {s} : item'[t] = item[t]
  BY <1>4 DEF Moved
<1>9. item'[s] = item[s] \/ item'[s].st = x
  BY <1>4 DEF Moved
<1>10. KeepsGate
  <2>1. \A t \in ImageSlots : item'[t].st = "completed" => item[t].st = "completed"
    BY <1>6, <1>8, <1>9, SlotFacts
  <2>2. item'["send"] = item["send"]
    BY <1>8, SlotFacts
  <2>3. log \subseteq log' /\ (<<"send", "ready">> \in log' => Has("send", "ready"))
    BY <1>5, SlotFacts DEF Has
  <2> QED
    BY <1>2, <2>1, <2>2, <2>3 DEF KeepsGate
<1>11. KeepsText
  BY <1>5, <1>8, SlotFacts DEF KeepsText, Has
<1>12. made' \in [ImageSlots -> Nat]
  BY <1>2 DEF CallShape
<1>13. item'[c.s].st \in Untried => made'[c.s] = 0
  BY <1>1, <1>2, <1>6, <1>9, CallFacts DEF Untried
<1>14. MadeInv' /\ CallShape'
  BY <1>1, <1>2, <1>8, <1>10, <1>12, <1>13, SlotFacts, CallFacts, CallMade
<1> QED
  BY <1>2, <1>7, <1>10, <1>11, <1>14, CallPipeline

LEMMA ImagesPipeline ==
  ASSUME PipelineInv, ImagesNext, UNCHANGED <<returnVars, sendVars>>
  PROVE  PipelineInv'
<1> USE DEF PipelineInv, Shape
<1>1. CASE (RunEvidence \/ DraftBrief \/ BriefFails) /\ UNCHANGED imageVars
  <2>1. Keeps /\ inbox' = inbox
    BY <1>1, EvidenceKeeps, BriefKeeps, BriefFailsKeeps DEF RunEvidence, DraftBrief, BriefFails
  <2> QED
    BY <1>1, <2>1, KeepsPipeline DEF returnVars, reviewVars
<1>2. ASSUME NEW s \in ImageSlots, Lapse(s), UNCHANGED imageVars
      PROVE  PipelineInv'
  <2>1. Keeps /\ inbox' = inbox
    BY <1>2, LapseKeeps DEF Lapse
  <2> QED
    BY <1>2, <2>1, KeepsPipeline DEF returnVars, reviewVars
<1>3. ASSUME NEW s \in ImageSlots, TerminalizeStale(s)
      PROVE  PipelineInv'
  <2>1. Keeps /\ inbox' = inbox /\ UNCHANGED imageVars
    BY <1>3, StaleKeeps DEF TerminalizeStale, imageVars
  <2> QED
    BY <2>1, KeepsPipeline DEF returnVars, reviewVars
<1> QED
  BY <1>1, <1>2, <1>3, ClaimPipeline, ProviderPipeline, StorePipeline, PersistPipeline,
     FailurePipeline, CrashPipeline DEF ImagesNext, GenerationWorker
-----------------------------------------------------------------------------
(***************************************************************************)
(* The return of a poster                                                  *)
(***************************************************************************)

(* A step of the notices keeps the rest of the pipeline.                   *)
LEMMA NoticePipeline ==
  ASSUME PipelineInv, NoticeInv', NoticeShape',
         UNCHANGED <<itemVars, imageVars, reviewVars, sendVars>>
  PROVE  PipelineInv'
<1> USE DEF PipelineInv, Shape
<1>1. Keeps /\ inbox' = inbox
  BY StayKeeps DEF itemVars
<1>2. GateInv' /\ TextInv' /\ MadeInv'
  BY <1>1, GateKept, TextKept, MadeKept DEF Keeps, imageVars, sendVars
<1>3. ActionInv' /\ ReviewShape' /\ (sends \in Nat)' /\ CallShape'
  BY <1>1, ActionKept DEF Keeps, reviewVars, sendVars, imageVars, CallShape
<1> QED
  BY <1>1, <1>2, <1>3 DEF Keeps

(* Claiming, uploading and sending happen at most once; a definite outcome *)
(* is recorded only by the worker that saw it.                             *)
LEMMA NoticeSteps ==
  ASSUME NoticeInv, NoticeShape, NEW s \in ImageSlots,
         \/ StartNotice(s) \/ UpsertNotice(s) \/ LapseNotice(s) \/ ReconcileNotice(s)
         \/ ClaimNotice(s) \/ RejectNotice(s) \/ Upload(s) \/ MarkSending(s)
         \/ SendCard(s) \/ CompleteDelivery(s) \/ FailDelivery(s) \/ CrashDelivery(s)
  PROVE  NoticeInv' /\ NoticeShape' /\ UNCHANGED <<itemVars, imageVars, reviewVars>>
<1> USE DEF NoticeInv, NoticeShape, itemVars
<1>1. CASE StartNotice(s)
  BY <1>1 DEF StartNotice
<1>2. CASE UpsertNotice(s)
  BY <1>2 DEF UpsertNotice
<1>3. CASE LapseNotice(s)
  BY <1>3 DEF LapseNotice
<1>4. CASE ReconcileNotice(s)
  BY <1>4 DEF ReconcileNotice, StaleNotice
<1>5. CASE ClaimNotice(s)
  BY <1>5 DEF ClaimNotice, Deliverable
<1>6. CASE RejectNotice(s)
  BY <1>6 DEF RejectNotice, Deliverable
<1>7. CASE Upload(s)
  BY <1>7 DEF Upload
<1>8. CASE MarkSending(s)
  BY <1>8 DEF MarkSending, MaySend
<1>9. CASE SendCard(s)
  BY <1>9 DEF SendCard
<1>10. CASE CompleteDelivery(s)
  BY <1>10 DEF CompleteDelivery, Claimed
<1>11. CASE FailDelivery(s)
  BY <1>11 DEF FailDelivery, Claimed, FailureStatus
<1>12. CASE CrashDelivery(s)
  BY <1>12 DEF CrashDelivery
<1> QED
  BY <1>1, <1>2, <1>3, <1>4, <1>5, <1>6, <1>7, <1>8, <1>9, <1>10, <1>11, <1>12

(* A click records its decision, or finds it recorded.                     *)
LEMMA ClickPipeline ==
  ASSUME PipelineInv, NEW s \in ImageSlots, NEW d \in Decisions, Click(s, d), UNCHANGED sendVars
  PROVE  PipelineInv'
<1> USE DEF PipelineInv, Shape
<1>1. /\ UNCHANGED <<origin, facts, inbox, imageVars, noticeVars, action>>
      /\ clicks' = clicks \cup {<<s, d>>}
      /\ \/ art[s] = d /\ UNCHANGED <<art, item, log>>
         \/ Reviewable(s, d, "pending") /\ RecordReview(s, d)
  BY DEF Click, ClickAccepted
<1>2. Keeps
  <2>1. CASE art[s] = d /\ UNCHANGED <<art, item, log>>
    BY <1>1, <2>1, StayKeeps
  <2>2. CASE Reviewable(s, d, "pending") /\ RecordReview(s, d)
    BY <1>1, <2>2, ReviewKeeps, SlotFacts DEF Reviewable
  <2> QED
    BY <1>1, <2>1, <2>2
<1>3. <<s, d>> \in log'
  <2>1. CASE art[s] = d /\ UNCHANGED <<art, item, log>>
    <3>1. notice[s] = "delivered"
      BY DEF Click, ClickAccepted
    <3>2. ~Automatic
      BY <3>1 DEF NoticeInv, Automatic
    <3> QED
      BY <2>1, <3>2, SlotFacts DEF GateInv, Has
  <2>2. CASE RecordReview(s, d)
    BY <2>2 DEF RecordReview
  <2> QED
    BY <1>1, <2>1, <2>2
<1>4. ActionInv' /\ ReviewShape'
  <2>1. log \subseteq log'
    BY <1>2 DEF Keeps, KeepsGate
  <2>2. \A k \in clicks' : <<k[1], k[2]>> \in log'
    <3>1. \A k \in clicks : <<k[1], k[2]>> \in log'
      BY <2>1 DEF ActionInv, Has
    <3>2. <<s, d>>[1] = s /\ <<s, d>>[2] = d
      OBVIOUS
    <3>3. PICK k : k = <<s, d>>
      OBVIOUS
    <3>4. k[1] = s /\ k[2] = d
      BY <3>2, <3>3
    <3> QED
      BY <1>1, <1>3, <3>1, <3>3, <3>4
  <2>3. \A t \in ImageSlots : action'[t] # "none" => <<t, action'[t]>> \in log'
    BY <1>1, <2>1 DEF ActionInv, Has
  <2> QED
    BY <1>1, <2>2, <2>3 DEF ActionInv, ReviewShape, Has
<1>5. GateInv' /\ TextInv' /\ MadeInv'
  BY <1>1, <1>2, GateKept, TextKept, MadeKept DEF Keeps, imageVars, sendVars
<1>6. NoticeInv' /\ NoticeShape' /\ CallShape' /\ (sends \in Nat)'
  BY <1>1, <1>2, NoticeKept DEF Keeps, CallShape, imageVars, sendVars
<1> QED
  BY <1>1, <1>2, <1>4, <1>5, <1>6 DEF Keeps
LEMMA ActionPipeline ==
  ASSUME PipelineInv, NEW k \in clicks, InsertAction(k) \/ CrashClick(k), UNCHANGED sendVars
  PROVE  PipelineInv'
<1> USE DEF PipelineInv, Shape
<1>1. UNCHANGED <<itemVars, imageVars, noticeVars>> /\ clicks' = clicks \ {k}
  BY DEF InsertAction, CrashClick
<1>2. Keeps /\ inbox' = inbox
  BY <1>1, StayKeeps DEF itemVars
<1>3. k[1] \in ImageSlots /\ Has(k[1], k[2])
  BY DEF ReviewShape, ActionInv
<1>4. ActionInv' /\ ReviewShape'
  <2>1. log' = log
    BY <1>1 DEF itemVars
  <2>2. \A j \in clicks' : <<j[1], j[2]>> \in log'
    BY <1>1, <2>1 DEF ActionInv, Has
  <2>3. DOMAIN action' = ImageSlots
    BY DEF InsertAction, CrashClick, ReviewShape
  <2>4. \A t \in ImageSlots : action'[t] = action[t] \/ (t = k[1] /\ action'[t] = k[2])
    BY DEF InsertAction, CrashClick, ReviewShape
  <2>5. \A t \in ImageSlots : action'[t] # "none" => <<t, action'[t]>> \in log'
    BY <1>3, <2>1, <2>4 DEF ActionInv, Has
  <2> QED
    BY <1>1, <2>2, <2>3, <2>5 DEF ActionInv, ReviewShape, Has
<1>5. GateInv' /\ TextInv' /\ MadeInv'
  BY <1>1, <1>2, GateKept, TextKept, MadeKept DEF Keeps, imageVars, sendVars
<1>6. NoticeInv' /\ NoticeShape' /\ CallShape' /\ (sends \in Nat)'
  BY <1>1, <1>2, NoticeKept DEF Keeps, CallShape, imageVars, sendVars
<1> QED
  BY <1>2, <1>4, <1>5, <1>6 DEF Keeps

LEMMA RevisePipeline ==
  ASSUME PipelineInv, ReviseCreate \/ ReviseRecord, UNCHANGED sendVars
  PROVE  PipelineInv'
<1> USE DEF PipelineInv, Shape
<1>1. UNCHANGED <<origin, facts, art, log, inbox, imageVars, noticeVars, action, clicks>>
  BY DEF ReviseCreate, ReviseRecord, itemVars
<1>2. item' = item \/ (item["revision"].st = "none" /\ Moved(item', "revision", InitialStatus("revision")))
  BY SlotFacts, CreatedMoves DEF ReviseCreate, ReviseRecord, itemVars
<1>3. \A t \in Slots : t # "revision" => item'[t] = item[t]
  BY <1>2 DEF Moved
<1>4. item'["revision"] = item["revision"] \/
        (item["revision"].st = "none" /\ item'["revision"].st \notin {"completed"})
  BY <1>2, SlotFacts, Initials DEF Moved
<1>5. ItemShape'
  BY <1>1, <1>2 DEF ItemShape, Moved
<1>6. KeepsGate
  BY <1>1, <1>3, <1>4, SlotFacts DEF KeepsGate, Has
<1>7. KeepsImages
  BY <1>1, <1>3, <1>4, SlotFacts DEF KeepsImages, Untried
<1>8. KeepsText
  BY <1>1, <1>3, SlotFacts DEF KeepsText, Has
<1> QED
  BY <1>1, <1>5, <1>6, <1>7, <1>8, KeepsPipeline DEF Keeps

LEMMA ReturnPipeline ==
  ASSUME PipelineInv, ReturnNext, UNCHANGED sendVars
  PROVE  PipelineInv'
BY NoticeSteps, NoticePipeline, ClickPipeline, ActionPipeline, RevisePipeline
   DEF ReturnNext, DeliveryWorker, PipelineInv, Shape

-----------------------------------------------------------------------------
(***************************************************************************)
(* The group message                                                       *)
(***************************************************************************)

(* What the readiness worker and the text sender do, once the rest of the  *)
(* pipeline is known to be left alone.                                     *)
LEMMA SendPipeline ==
  ASSUME PipelineInv, ItemShape', KeepsGate, KeepsImages, TextInv', (sends \in Nat)',
         inbox' = inbox, UNCHANGED <<imageVars, returnVars>>,
         texter' # "none" \/ sends' > 0 => texter # "none" \/ sends > 0 \/ Has("send", "ready")
  PROVE  PipelineInv'
<1> USE DEF PipelineInv, Shape
<1>1. GateInv' /\ MadeInv'
  BY GateKept, MadeKept DEF imageVars
<1>2. NoticeInv' /\ NoticeShape' /\ ActionInv' /\ ReviewShape' /\ CallShape'
  BY NoticeKept, ActionKept DEF returnVars, reviewVars, imageVars, CallShape
<1> QED
  BY <1>1, <1>2

(* An item in which only the work item of the group message moved.         *)
LEMMA SendMoved ==
  ASSUME ItemShape, NEW x, Moved(item', "send", x), x # "queued",
         UNCHANGED <<origin, facts, art>>, log \subseteq log',
         <<"send", "ready">> \in log' => Has("send", "ready")
  PROVE  ItemShape' /\ KeepsGate /\ KeepsImages
<1>1. ItemShape'
  BY DEF ItemShape, Moved
<1>2. \A t \in Slots : t # "send" => item'[t] = item[t]
  BY DEF Moved
<1>3. item'["send"].st = x
  BY DEF Moved
<1> QED
  BY <1>1, <1>2, <1>3, SlotFacts DEF KeepsGate, KeepsImages, Has

LEMMA ReadyPipeline ==
  ASSUME PipelineInv, RecordReady \/ ReadyFails, UNCHANGED <<sendVars, imageVars, returnVars>>
  PROVE  PipelineInv'
<1> USE DEF PipelineInv, Shape
<1>1. CASE RecordReady
  <2>1. UNCHANGED <<origin, facts, item, art, inbox>> /\ log' = log \cup {<<"send", "ready">>}
    BY <1>1 DEF RecordReady
  <2>2. ~Automatic => Has("send", "confirmed") /\ Has(Carried, "approved")
    <3>1. item["send"].st = "queued" /\ art[Carried] = "approved"
      BY <1>1 DEF RecordReady, ReadyCandidate, ReadyValid
    <3> QED
      BY <3>1, SlotFacts DEF GateInv, Decisions, Has
  <2>3. KeepsGate /\ KeepsImages /\ KeepsText
    BY <2>1, <2>2, SlotFacts DEF KeepsGate, KeepsImages, KeepsText, Has
  <2>4. ItemShape'
    BY <2>1 DEF ItemShape
  <2> QED
    BY <2>1, <2>3, <2>4, KeepsPipeline DEF Keeps, returnVars, reviewVars
<1>2. CASE ReadyFails
  <2>1. /\ Moved(item', "send", "failed")
        /\ UNCHANGED <<origin, facts, art, inbox>>
        /\ log' = log \cup {<<"send", "denied_by_policy">>}
    BY <1>2, SlotFacts, MoveMoves DEF ReadyFails
  <2>2. \A e \in {"ready", "sent", "failed"} : <<"send", e>> \in log' => Has("send", e)
    BY <2>1 DEF Has
  <2>3. Keeps
    BY <2>1, <2>2, SlotFacts, MoveKeeps DEF Harmless
  <2> QED
    BY <2>1, <2>3, KeepsPipeline DEF returnVars, reviewVars
<1> QED
  BY <1>1, <1>2

LEMMA ClaimTextPipeline ==
  ASSUME PipelineInv, ClaimText \/ ClaimTextInvalid, UNCHANGED <<imageVars, returnVars>>
  PROVE  PipelineInv'
<1> USE DEF PipelineInv, Shape
<1>1. /\ item["send"].st = "queued"
      /\ Has("send", "ready")
      /\ ~Has("send", "sent")
      /\ sends' = sends
      /\ UNCHANGED <<origin, facts, art, inbox>>
  BY DEF ClaimText, ClaimTextInvalid, TextCandidate
<1>2. sends = 0 /\ texter = "none" /\ ~Has("send", "sent") /\ ~Has("send", "failed")
  BY <1>1 DEF TextInv, Fresh
<1>3. CASE ClaimText
  <2>1. Moved(item', "send", "processing") /\ log' = log /\ texter' = "calling"
    BY <1>3, SlotFacts DEF ClaimText, ItemShape, Moved
  <2>2. item'["send"].st = "processing"
    BY <2>1 DEF Moved
  <2>3. TextInv'
    BY <1>1, <1>2, <2>1, <2>2 DEF TextInv, Fresh, Has
  <2> QED
    BY <1>1, <2>1, <2>3, SendMoved, SendPipeline DEF Has
<1>4. CASE ClaimTextInvalid
  <2>1. Moved(item', "send", "failed") /\ log' = log \cup {<<"send", "failed">>} /\ texter' = texter
    BY <1>4, SlotFacts, MoveMoves DEF ClaimTextInvalid
  <2>2. item'["send"].st = "failed"
    BY <2>1 DEF Moved
  <2>3. TextInv'
    BY <1>1, <1>2, <2>1, <2>2 DEF TextInv, Fresh, Has
  <2>4. <<"send", "ready">> \in log' => Has("send", "ready")
    BY <1>1
  <2> QED
    BY <1>1, <2>1, <2>3, <2>4, SendMoved, SendPipeline
<1> QED
  BY <1>3, <1>4

(* The one call of the text sender.                                        *)
LEMMA SendTextPipeline ==
  ASSUME PipelineInv, SendText \/ CrashText, UNCHANGED <<imageVars, returnVars>>
  PROVE  PipelineInv'
<1> USE DEF PipelineInv, Shape
<1>1. UNCHANGED <<origin, facts, item, art, log, inbox>>
  BY DEF SendText, CrashText, itemVars
<1>2. Keeps
  BY <1>1, StayKeeps
<1>3. texter # "none"
  BY DEF SendText, CrashText
<1>4. item["send"].st \notin Fresh /\ ~Has("send", "sent") /\ ~Has("send", "failed")
  BY <1>3 DEF TextInv
<1>5. TextInv' /\ (sends \in Nat)'
  BY <1>1, <1>4 DEF TextInv, SendText, CrashText, Has
<1> QED
  BY <1>1, <1>2, <1>3, <1>5, SendPipeline DEF Keeps

LEMMA RecordTextPipeline ==
  ASSUME PipelineInv, RecordText, UNCHANGED <<imageVars, returnVars>>
  PROVE  PipelineInv'
<1> USE DEF PipelineInv, Shape
<1>1. /\ texter \in {"sent", "failed", "send_ambiguous"}
      /\ texter' = "none"
      /\ sends' = sends
      /\ UNCHANGED <<origin, facts, art, inbox>>
  BY DEF RecordText
<1>2. item["send"].st \notin Fresh /\ ~Has("send", "sent") /\ ~Has("send", "failed")
  BY <1>1 DEF TextInv
<1>3. CASE item["send"].st = "processing"
  <2>1. PICK x \in {"completed", "failed"} : Moved(item', "send", x)
    BY <1>3, SlotFacts, MoveMoves DEF RecordText
  <2>2. log' = log \cup {<<"send", texter>>}
    BY <1>3 DEF RecordText
  <2>3. item'["send"].st = x
    BY <2>1 DEF Moved
  <2>4. TextInv'
    BY <1>1, <1>2, <2>1, <2>2, <2>3 DEF TextInv, Fresh, Has
  <2>5. <<"send", "ready">> \in log' => Has("send", "ready")
    BY <1>1, <2>2 DEF Has
  <2> QED
    BY <1>1, <2>1, <2>2, <2>4, <2>5, SendMoved, SendPipeline
<1>4. CASE item["send"].st # "processing"
  <2>1. item' = item /\ log' = log
    BY <1>4 DEF RecordText
  <2>2. Keeps
    BY <1>1, <2>1, StayKeeps
  <2>3. TextInv'
    BY <1>1, <1>2, <2>1 DEF TextInv, Has
  <2> QED
    BY <1>1, <2>2, <2>3, SendPipeline DEF Keeps
<1> QED
  BY <1>3, <1>4

-----------------------------------------------------------------------------
(***************************************************************************)
(* The theorems                                                            *)
(***************************************************************************)

LEMMA StepPipeline == PipelineInv /\ [Next]_vars => PipelineInv'
<1> SUFFICES ASSUME PipelineInv, [Next]_vars PROVE PipelineInv'
  OBVIOUS
<1>1. CASE ItemsNext /\ UNCHANGED <<imageVars, returnVars, sendVars>>
  BY <1>1, ItemsPipeline
<1>2. CASE ImagesNext /\ UNCHANGED <<returnVars, sendVars>>
  BY <1>2, ImagesPipeline
<1>3. CASE ReturnNext /\ UNCHANGED sendVars
  BY <1>3, ReturnPipeline
<1>4. CASE SendsNext /\ UNCHANGED <<imageVars, returnVars>>
  BY <1>4, ReadyPipeline, ClaimTextPipeline, SendTextPipeline, RecordTextPipeline
     DEF SendsNext, ReadinessWorker
<1>5. CASE UNCHANGED vars
  <2>1. Keeps /\ inbox' = inbox
    BY <1>5, StayKeeps DEF vars, itemVars, PipelineInv, Shape
  <2> QED
    BY <1>5, <2>1, KeepsPipeline DEF vars, returnVars, reviewVars, PipelineInv, Shape
<1> QED
  BY <1>1, <1>2, <1>3, <1>4, <1>5 DEF Next

(* The inductive invariant: which event stands behind every status, and    *)
(* how often every outside call was answered.                              *)
THEOREM Inductive == Spec => []PipelineInv
<1>1. Init => PipelineInv
  BY InitPipeline
<1>2. PipelineInv /\ [Next]_vars => PipelineInv'
  BY StepPipeline
<1> QED
  BY <1>1, <1>2, PTL DEF Spec

(* Whatever the reviews, workbench events, retries and workers do: no      *)
(* image is drawn from a brief nobody approved or authorized, and no group *)
(* message is announced or sent without the final confirmation and the     *)
(* approval of what it carries.                                            *)
THEOREM Gate == Spec => []HumanGate
<1>1. PipelineInv => HumanGate
  BY SlotFacts DEF PipelineInv, GateInv, HumanGate
<1> QED
  BY <1>1, Inductive, PTL

(* No image is ordered, card shown or text sent twice, and what the rows   *)
(* and the requester's status say of it is what happened.                  *)
THEOREM Outcomes == Spec => []HonestOutcomes
<1>1. PipelineInv => HonestOutcomes
  <2> SUFFICES ASSUME PipelineInv PROVE HonestOutcomes
    OBVIOUS
  <2>1. UserStatus = "awaiting_you" => \E s \in ImageSlots : notice[s] = "delivered"
    BY DEF UserStatus
  <2>2. UserStatus = "approved" => \E s \in ImageSlots : action[s] = "approved"
    BY DEF UserStatus
  <2> QED
    BY <2>1, <2>2 DEF PipelineInv, Shape, TextInv, MadeInv, NoticeInv, ActionInv, HonestOutcomes
<1> QED
  BY <1>1, Inductive, PTL
=============================================================================
