-------------------------- MODULE McpSurfaceProofs -------------------------
(***************************************************************************)
(* What clients are told and how their frames are settled, proved for any  *)
(* number of frames, in every order, on both transports.                   *)
(***************************************************************************)
EXTENDS McpSurface, TLAPS

-----------------------------------------------------------------------------
(* The inductive invariant.                                                *)

(* What the process knows.                                                 *)
Offered == IF mode = "http" THEN Served(brand) ELSE StdioTools

(* The calls that reach the tools.                                         *)
Reaches(f) == f.form = "tools/call" \/ (f.form = "native" /\ mode = "http")

ToldOK ==
    /\ known \subseteq Offered
    /\ \A k \in DOMAIN answers :
          Reaches(Frame(answers[k])) /\ answers[k].why = "not found" =>
              Frame(answers[k]).tool \notin Offered

(* Only the pipe is closed, and nobody goes on past its end.               *)
PipeOK ==
    /\ pipe # "open" => mode = "stdio"
    /\ returned => pipe # "open" /\ Waiting = {}

(* Over stdio what is done comes before what waits.                        *)
QueueOK == mode = "stdio" => \A i \in handled, j \in Waiting : i < j

(* A frame that is done is answered, but for a notification or a write     *)
(* that failed.                                                            *)
SettledOK == \A i \in handled : Answered(i) \/ i \in lost \/ Silent(asked[i])

MInv ==
    /\ TypeOK /\ ToldOK /\ PipeOK /\ QueueOK /\ SettledOK
    /\ NotificationsAreSilent /\ AnsweredInOrder

-----------------------------------------------------------------------------
(* Frames and their outcomes.                                              *)
LEMMA FrameFacts ==
    ASSUME NEW f \in Frames
    PROVE  /\ f.form \in {"garbled", "protocol", "other version", "no method", "native",
                          "tools/call"}
           /\ f.form = "protocol" => f.method \in Protocol
           /\ IsCall(f) => f.tool \in Tools \cup {NoTool}
           /\ f.id \in BOOLEAN
  <1>1. CASE f = Garbled
    BY <1>1 DEF Garbled, IsCall
  <1>2. CASE f \in Plain
    BY <1>2 DEF Plain, IsCall
  <1>3. CASE f \in Native \cup ToolsCall
    <2>1. PICK form \in {"native", "tools/call"} : f \in Call(form)
      BY <1>3 DEF Native, ToolsCall
    <2>2. PICK t \in Tools \cup {NoTool}, i \in BOOLEAN :
             \E a \in ArgsOf(t) : f = [form |-> form, tool |-> t, args |-> a, id |-> i]
      BY <2>1 DEF Call
    <2>3. f.form = form /\ f.tool = t /\ f.id = i
      BY <2>2
    <2> QED  BY <2>3 DEF IsCall
  <1> QED  BY <1>1, <1>2, <1>3 DEF Frames

(* A tool is not found when the process does not serve it, and a list of   *)
(* tools is one of those it serves.                                        *)
LEMMA OutcomeFacts ==
    ASSUME mode \in {"http", "stdio"}, NEW f \in Frames, NEW why \in Outcomes(f)
    PROVE  /\ why \in Whys
           /\ Reaches(f) /\ why = "not found" => f.tool \notin Offered
           /\ Discovers(f, why) => Told(f) \subseteq Offered
  <1>f. /\ f.form \in {"garbled", "protocol", "other version", "no method", "native",
                       "tools/call"}
        /\ f.form = "protocol" => f.method \in Protocol
    BY FrameFacts
  <1>1. CASE mode = "http"
    <2>1. why \in HandleMCP(f)
      BY <1>1 DEF Outcomes
    <2>2. CASE IsCall(f)
      <3>1. f.form # "garbled" /\ f.form \notin {"other version", "no method"}
            /\ f.form # "protocol"
        BY <2>2 DEF IsCall
      <3>2. why \in Handle(f.tool, f.args)
        BY <2>1, <2>2, <3>1 DEF HandleMCP
      <3>3. why \in Whys /\ (why = "not found" => f.tool \notin Served(brand))
        BY <3>2 DEF Handle, Whys
      <3>4. Told(f) \subseteq Served(brand)
        BY <2>2 DEF Told, Capabilities, Served
      <3> QED  BY <1>1, <3>3, <3>4 DEF Offered
    <2>3. CASE ~IsCall(f)
      <3>1. why \in Whys
        BY <1>f, <2>1, <2>3 DEF HandleMCP, Whys, IsCall
      <3>2. ~Reaches(f)
        BY <2>3 DEF Reaches, IsCall
      <3>3. Told(f) \subseteq Served(brand)
        BY <1>1, <2>3 DEF Told, ToolDescriptors, Served
      <3> QED  BY <1>1, <3>1, <3>2, <3>3 DEF Offered
    <2> QED  BY <2>2, <2>3
  <1>2. CASE mode = "stdio"
    <2>1. why \in Dispatch(f)
      BY <1>2 DEF Outcomes
    <2>2. CASE f.form = "tools/call"
      <3>1. why \in MapTool(f.tool, f.args)
        BY <2>1, <2>2 DEF Dispatch
      <3>2. why \in Whys
        BY <3>1 DEF MapTool, Handle, Whys
      <3>3. why = "not found" => f.tool \notin StdioTools
        <4>1. StdioTools \subseteq Mapped \cap Served(brand)
          BY DEF StdioTools, Mapped, Served, SITools
        <4> QED  BY <3>1, <4>1 DEF MapTool, Handle
      <3>4. ~Discovers(f, why)
        <4>1. f.tool \notin Mapped => why = "not found"
          BY <3>1 DEF MapTool
        <4> QED  BY <2>2, <4>1 DEF Discovers, Mapped
      <3> QED  BY <1>2, <3>2, <3>3, <3>4 DEF Offered
    <2>3. CASE f.form # "tools/call"
      <3>1. why \in Whys /\ (f.form = "native" => why = "not found")
        BY <1>f, <2>1, <2>3 DEF Dispatch, Whys
      <3>2. ~Reaches(f)
        BY <1>2, <2>3 DEF Reaches
      <3>3. Discovers(f, why) => Told(f) = StdioTools
        BY <1>2, <2>3, <3>1 DEF Discovers, Told, IsCall
      <3> QED  BY <1>2, <3>1, <3>2, <3>3 DEF Offered
    <2> QED  BY <2>2, <2>3
  <1> QED  BY <1>1, <1>2

(* Types, read as indices.                                                 *)
LEMMA SeqIndices ==
    ASSUME NEW S, NEW q \in Seq(S)
    PROVE  /\ Len(q) \in Nat /\ DOMAIN q = 1 .. Len(q)
           /\ \A k \in DOMAIN q : q[k] \in S
  OBVIOUS

(* A sequence is one over any set that its elements are in.                *)
LEMMA SeqOfOthers ==
    ASSUME NEW S, NEW T, NEW q \in Seq(S), \A k \in DOMAIN q : q[k] \in T
    PROVE  q \in Seq(T)
  OBVIOUS

(* The type invariant at the places of its sequences.                      *)
LEMMA TypesFacts ==
    ASSUME TypeOK
    PROVE  /\ asked \in Seq(Frames) /\ Len(asked) \in Nat /\ DOMAIN asked = 1 .. Len(asked)
           /\ handled \subseteq 1 .. Len(asked)
           /\ answers \in Seq([to : handled, why : Whys])
           /\ Len(answers) \in Nat /\ DOMAIN answers = 1 .. Len(answers)
           /\ \A k \in DOMAIN answers : answers[k].to \in handled /\ answers[k].why \in Whys
                                        /\ answers[k] \in [to : handled, why : Whys]
           /\ lost \subseteq handled /\ ran \subseteq handled
           /\ mode \in {"http", "stdio"}
  <1>1. asked \in Seq(Frames) /\ handled \subseteq DOMAIN asked /\ mode \in {"http", "stdio"}
        /\ lost \subseteq handled /\ ran \subseteq handled
    BY DEF TypeOK
  <1>2. Len(asked) \in Nat /\ DOMAIN asked = 1 .. Len(asked)
    BY <1>1, SeqIndices
  <1>3. answers \in Seq([to : handled, why : Whys])
    BY DEF TypeOK
  <1>4. /\ Len(answers) \in Nat /\ DOMAIN answers = 1 .. Len(answers)
        /\ \A k \in DOMAIN answers : answers[k] \in [to : handled, why : Whys]
    BY <1>3, SeqIndices
  <1> QED  BY <1>1, <1>2, <1>3, <1>4

(* Nothing was asked.                                                      *)
LEMMA InitMInv == Init => MInv
  <1> SUFFICES ASSUME Init PROVE MInv
    OBVIOUS
  <1>1. asked = << >> /\ answers = << >> /\ handled = {} /\ ran = {} /\ lost = {} /\ known = {}
        /\ pipe = "open" /\ returned = FALSE
    BY DEF Init
  <1>2. TypeOK
    <2>1. Len(asked) <= MaxFrames
      <3>1. Len(asked) = 0
        BY <1>1
      <3> QED  BY <3>1, MaxFramesAssumption
    <2>2. asked \in Seq(Frames) /\ answers \in Seq([to : handled, why : Whys])
      BY <1>1
    <2> QED  BY <1>1, <2>1, <2>2 DEF Init, TypeOK
  <1>3. ToldOK /\ QueueOK /\ SettledOK /\ PipeOK
    BY <1>1 DEF ToldOK, QueueOK, SettledOK, PipeOK
  <1>4. NotificationsAreSilent /\ AnsweredInOrder
    BY <1>1 DEF NotificationsAreSilent, AnsweredInOrder
  <1> QED  BY <1>2, <1>3, <1>4 DEF MInv

-----------------------------------------------------------------------------
(* A frame is sent: what was asked before stays in its place.              *)
LEMMA SendStep ==
    ASSUME MInv, NEW f \in Frames, Send(f)
    PROVE  MInv'
  <1>t. /\ asked \in Seq(Frames) /\ Len(asked) \in Nat /\ DOMAIN asked = 1 .. Len(asked)
        /\ handled \subseteq 1 .. Len(asked)
        /\ answers \in Seq([to : handled, why : Whys])
        /\ \A k \in DOMAIN answers : answers[k].to \in handled
        /\ lost \subseteq handled /\ ran \subseteq handled
    BY TypesFacts DEF MInv
  <1>1. /\ pipe = "open" /\ Len(asked) < MaxFrames /\ asked' = Append(asked, f)
        /\ UNCHANGED <<mode, brand, known, pipe, handled, returned, answers, lost, ran>>
    BY DEF Send
  <1>2. /\ asked' \in Seq(Frames) /\ Len(asked') = Len(asked) + 1
        /\ DOMAIN asked' = 1 .. Len(asked) + 1
        /\ \A i \in 1 .. Len(asked) : asked'[i] = asked[i]
    BY <1>1, <1>t
  <1>3. TypeOK'
    <2>1. Len(asked') <= MaxFrames
      BY <1>1, <1>2, <1>t, MaxFramesAssumption
    <2>2. handled' \subseteq DOMAIN asked'
      BY <1>1, <1>2, <1>t
    <2> QED  BY <1>1, <1>2, <2>1, <2>2 DEF MInv, TypeOK
  <1>4. \A k \in DOMAIN answers : asked'[answers[k].to] = asked[answers[k].to]
    BY <1>2, <1>t
  <1>5. ToldOK'
    BY <1>1, <1>4 DEF MInv, ToldOK, Offered, Reaches, Frame
  <1>6. PipeOK'
    BY <1>1 DEF MInv, PipeOK
  <1>7. QueueOK'
    <2> SUFFICES ASSUME mode = "stdio", NEW i \in handled, NEW j \in Waiting' PROVE i < j
      BY <1>1 DEF QueueOK
    <2>1. j \in Waiting \/ j = Len(asked) + 1
      BY <1>1, <1>2, <1>t DEF Waiting
    <2>2. i \in 1 .. Len(asked)
      BY <1>t
    <2> QED  BY <1>t, <2>1, <2>2 DEF MInv, QueueOK
  <1>8. SettledOK'
    BY <1>1, <1>2, <1>t DEF MInv, SettledOK, Answered, Silent
  <1>9. NotificationsAreSilent'
    <2>1. \A i \in ran : asked'[i] = asked[i]
      BY <1>2, <1>t
    <2> QED  BY <1>1, <1>4, <2>1 DEF MInv, NotificationsAreSilent, Frame
  <1>10. AnsweredInOrder'
    BY <1>1 DEF MInv, AnsweredInOrder
  <1> QED  BY <1>3, <1>5, <1>6, <1>7, <1>8, <1>9, <1>10 DEF MInv

(* The pipe is closed, and its end is read.                                *)
LEMMA EndStep == MInv /\ (Close \/ Eof) => MInv'
  <1> SUFFICES ASSUME MInv, Close \/ Eof PROVE MInv'
    OBVIOUS
  <1>1. /\ UNCHANGED <<mode, brand, known, asked, handled, answers, lost, ran>>
        /\ pipe' \in {"open", "closed", "cut"} /\ returned' \in BOOLEAN
    BY DEF Close, Eof, MInv, TypeOK
  <1>2. TypeOK'
    BY <1>1 DEF MInv, TypeOK
  <1>3. ToldOK' /\ QueueOK' /\ SettledOK'
    BY <1>1 DEF MInv, ToldOK, Offered, Reaches, Frame, QueueOK, Waiting, SettledOK, Answered,
                Silent
  <1>4. NotificationsAreSilent' /\ AnsweredInOrder'
    BY <1>1 DEF MInv, NotificationsAreSilent, AnsweredInOrder, Frame
  <1>5. PipeOK'
    BY <1>1 DEF Close, Eof, MInv, PipeOK, Waiting
  <1> QED  BY <1>2, <1>3, <1>4, <1>5 DEF MInv

-----------------------------------------------------------------------------
(* A frame is handled: it is silent; or its answer is written; or that     *)
(* fails.                                                                  *)
Written(i, why) ==
    /\ answers' = Append(answers, [to |-> i, why |-> why])
    /\ known' = IF Discovers(asked[i], why) THEN Told(asked[i]) ELSE known
    /\ UNCHANGED lost

NotWritten(i) == lost' = lost \cup {i} /\ UNCHANGED <<answers, known>>

(* What handling a frame does, over either transport: silence, an answer   *)
(* that is written, or one that is not.                                    *)
LEMMA HandleFacts ==
    ASSUME MInv, NEW i \in 1 .. MaxFrames, HandleFrame(i)
    PROVE  /\ ~returned /\ TurnOf(i) /\ handled' = handled \cup {i}
           /\ returned' = (pipe = "cut" /\ i = Len(asked))
           /\ UNCHANGED <<mode, brand, asked, pipe>>
           /\ \/ Silent(asked[i]) /\ UNCHANGED <<answers, known, lost, ran>>
              \/ /\ ~Silent(asked[i])
                 /\ \E why \in Outcomes(asked[i]) :
                       /\ Written(i, why) \/ NotWritten(i)
                       /\ ran' = IF Runs(asked[i], why) THEN ran \cup {i} ELSE ran
  BY DEF HandleFrame, NotAnswered, Answer, Written, NotWritten

(* A frame is handled.                                                     *)
LEMMA HandleStep ==
    ASSUME MInv, NEW i \in 1 .. MaxFrames, HandleFrame(i)
    PROVE  MInv'
  <1>t. /\ asked \in Seq(Frames) /\ Len(asked) \in Nat /\ DOMAIN asked = 1 .. Len(asked)
        /\ handled \subseteq 1 .. Len(asked)
        /\ answers \in Seq([to : handled, why : Whys])
        /\ Len(answers) \in Nat /\ DOMAIN answers = 1 .. Len(answers)
        /\ \A k \in DOMAIN answers : answers[k].to \in handled
        /\ lost \subseteq handled /\ ran \subseteq handled
        /\ mode \in {"http", "stdio"}
    BY TypesFacts DEF MInv
  <1>1. /\ ~returned /\ handled' = handled \cup {i}
        /\ returned' = (pipe = "cut" /\ i = Len(asked))
        /\ UNCHANGED <<mode, brand, asked, pipe>>
    BY HandleFacts
  <1>2. /\ i \in 1 .. Len(asked) /\ i \notin handled /\ i \in Waiting
        /\ mode = "stdio" => \A j \in Waiting : i <= j
    BY <1>t, HandleFacts DEF TurnOf, Waiting
  <1>f. asked[i] \in Frames
    BY <1>t, <1>2
  <1>3. \/ UNCHANGED <<answers, known>>
        \/ \E why \in Outcomes(asked[i]) : ~Silent(asked[i]) /\ Written(i, why)
    BY HandleFacts DEF NotWritten
  (* The answers so far, and one to i at most.                             *)
  <1>4. /\ answers' \in Seq([to : handled', why : Whys])
        /\ DOMAIN answers \subseteq DOMAIN answers'
        /\ \A k \in DOMAIN answers : answers'[k] = answers[k]
        /\ \A k \in DOMAIN answers' \ DOMAIN answers :
              k = Len(answers) + 1 /\ answers'[k].to = i /\ ~Silent(asked[i])
    <2>0. answers \in Seq([to : handled', why : Whys])
      <3>1. \A k \in DOMAIN answers : answers[k] \in [to : handled, why : Whys]
        BY TypesFacts DEF MInv
      <3>2. \A k \in DOMAIN answers : answers[k] \in [to : handled', why : Whys]
        BY <1>1, <3>1
      <3> QED  BY <1>t, <3>2, SeqOfOthers
    <2>1. CASE answers' = answers
      BY <2>0, <2>1
    <2>2. ASSUME NEW why \in Outcomes(asked[i]), ~Silent(asked[i]), Written(i, why)
          PROVE  <1>4!1 /\ <1>4!2 /\ <1>4!3 /\ <1>4!4
      <3>1. why \in Whys
        BY <1>f, <1>t, OutcomeFacts
      <3>2. answers' = Append(answers, [to |-> i, why |-> why])
        BY <2>2 DEF Written
      <3>3. [to |-> i, why |-> why] \in [to : handled', why : Whys]
        BY <1>1, <3>1
      <3>4. answers' \in Seq([to : handled', why : Whys])
        BY <2>0, <3>2, <3>3
      <3>5. /\ DOMAIN answers' = 1 .. Len(answers) + 1
            /\ \A k \in 1 .. Len(answers) : answers'[k] = answers[k]
            /\ answers'[Len(answers) + 1] = [to |-> i, why |-> why]
        BY <1>t, <3>2
      <3> QED  BY <1>t, <2>2, <3>4, <3>5
    <2> QED  BY <1>3, <2>1, <2>2
  <1>5. ran' \subseteq ran \cup {i} /\ lost' \subseteq lost \cup {i} /\ lost \subseteq lost'
        /\ (i \in ran' => IsCall(asked[i]) /\ ~Silent(asked[i]))
    BY <1>2, <1>t, HandleFacts DEF Written, NotWritten, Runs
  <1>6. known' \subseteq Offered
    <2>1. known \subseteq Offered
      BY DEF MInv, ToldOK
    <2>2. \A why \in Outcomes(asked[i]) : Discovers(asked[i], why) => Told(asked[i]) \subseteq Offered
      BY <1>f, <1>t, OutcomeFacts
    <2> QED  BY <1>3, <2>1, <2>2 DEF Written
  <1>7. TypeOK'
    <2>1. known' \subseteq Tools
      BY <1>6 DEF Offered, Served, StdioTools, SITools, Signed, Tools
    <2>2. handled' \subseteq DOMAIN asked' /\ lost' \subseteq handled' /\ ran' \subseteq handled'
      BY <1>1, <1>2, <1>5, <1>t
    <2>3. returned' \in BOOLEAN
      BY <1>1
    <2> QED  BY <1>1, <1>4, <2>1, <2>2, <2>3 DEF MInv, TypeOK
  <1>8. ToldOK'
    <2>1. Offered' = Offered
      BY <1>1 DEF Offered
    <2>2. ASSUME NEW k \in DOMAIN answers', Reaches(Frame(answers[k]))',
                 answers'[k].why = "not found"
          PROVE  asked[answers'[k].to].tool \notin Offered
      <3>1. CASE k \in DOMAIN answers
        BY <1>1, <1>4, <2>2, <3>1 DEF MInv, ToldOK, Reaches, Frame
      <3>2. CASE k \notin DOMAIN answers
        <4>1. PICK why \in Outcomes(asked[i]) : Written(i, why)
          BY <1>3, <3>2
        <4>2. k = Len(answers) + 1 /\ answers'[k].to = i
          BY <1>4, <3>2
        <4>3. answers'[k].why = why
          BY <1>t, <4>1, <4>2 DEF Written
        <4> QED  BY <1>1, <1>f, <1>t, <2>2, <4>1, <4>2, <4>3, OutcomeFacts DEF Reaches, Frame
      <3> QED  BY <3>1, <3>2
    <2> QED  BY <1>1, <1>6, <2>1, <2>2 DEF ToldOK, Frame
  <1>9. PipeOK'
    <2>1. pipe' # "open" => mode' = "stdio"
      BY <1>1 DEF MInv, PipeOK
    <2>2. ASSUME returned' PROVE pipe' # "open" /\ Waiting' = {}
      <3>1. pipe = "cut" /\ i = Len(asked) /\ mode = "stdio"
        BY <1>1, <2>2 DEF MInv, PipeOK
      <3>2. ASSUME NEW j \in Waiting PROVE j = i
        BY <1>2, <1>t, <3>1 DEF Waiting
      <3> QED  BY <1>1, <3>1, <3>2 DEF Waiting
    <2> QED  BY <2>1, <2>2 DEF PipeOK
  <1>10. QueueOK'
    <2> SUFFICES ASSUME mode = "stdio", NEW h \in handled', NEW j \in Waiting' PROVE h < j
      BY <1>1 DEF QueueOK
    <2>1. j \in Waiting /\ j # i /\ j \in 1 .. Len(asked)
      BY <1>1, <1>t DEF Waiting
    <2>2. i < j
      BY <1>2, <2>1
    <2> QED  BY <1>1, <2>1, <2>2 DEF MInv, QueueOK
  <1>11. SettledOK'
    <2>1. \A h \in handled : Answered(h) => Answered(h)'
      BY <1>4 DEF Answered
    <2>2. Answered(i)' \/ i \in lost' \/ Silent(asked[i])
      <3>1. ASSUME NEW why \in Outcomes(asked[i]), Written(i, why) PROVE Answered(i)'
        <4>1. answers' = Append(answers, [to |-> i, why |-> why])
          BY <3>1 DEF Written
        <4>2. Len(answers) + 1 \in DOMAIN answers' /\ answers'[Len(answers) + 1].to = i
          BY <1>t, <4>1
        <4> QED  BY <4>2 DEF Answered
      <3> QED  BY <3>1, HandleFacts DEF NotWritten
    <2> QED  BY <1>1, <1>5, <2>1, <2>2 DEF MInv, SettledOK, Silent
  <1>12. NotificationsAreSilent'
    <2> SUFFICES ASSUME mode = "stdio" PROVE NotificationsAreSilent'
      BY <1>1 DEF NotificationsAreSilent
    <2>1. \A h \in ran' : asked[h].id
      BY <1>5 DEF MInv, NotificationsAreSilent, Silent, IsCall
    <2>2. ASSUME NEW k \in DOMAIN answers'
          PROVE  asked[answers'[k].to].form = "garbled" \/ asked[answers'[k].to].id
      <3>1. CASE k \in DOMAIN answers
        BY <1>4, <3>1 DEF MInv, NotificationsAreSilent, Frame
      <3>2. CASE k \notin DOMAIN answers
        BY <1>4, <3>2 DEF Silent
      <3> QED  BY <3>1, <3>2
    <2>3. ASSUME NEW k \in DOMAIN answers', NEW l \in DOMAIN answers',
                 answers'[k].to = answers'[l].to
          PROVE  k = l
      <3>1. \A n \in DOMAIN answers : answers'[n].to # i
        BY <1>2, <1>4, <1>t
      <3>2. CASE k \in DOMAIN answers /\ l \in DOMAIN answers
        BY <1>4, <2>3, <3>2 DEF MInv, NotificationsAreSilent
      <3> QED  BY <1>4, <2>3, <3>1, <3>2
    <2> QED  BY <1>1, <2>1, <2>2, <2>3 DEF NotificationsAreSilent, Frame
  <1>13. AnsweredInOrder'
    <2> SUFFICES ASSUME mode = "stdio", NEW k \in DOMAIN answers', NEW l \in DOMAIN answers', k < l
                 PROVE  answers'[k].to < answers'[l].to
      BY <1>1 DEF AnsweredInOrder
    <2>1. CASE l \in DOMAIN answers
      <3>1. k \in DOMAIN answers
        BY <1>4, <1>t, <2>1
      <3> QED  BY <1>4, <2>1, <3>1 DEF MInv, AnsweredInOrder
    <2>2. CASE l \notin DOMAIN answers
      <3>1. answers'[l].to = i /\ k \in DOMAIN answers
        BY <1>4, <1>t, <2>2
      <3>2. answers'[k].to \in handled
        BY <1>4, <1>t, <3>1
      <3> QED  BY <1>2, <3>1, <3>2 DEF MInv, QueueOK
    <2> QED  BY <2>1, <2>2
  <1> QED  BY <1>7, <1>8, <1>9, <1>10, <1>11, <1>12, <1>13 DEF MInv

(* The invariant of both transports holds in every behaviour.              *)
THEOREM SurfaceInductive == Spec => []MInv
  <1>1. MInv /\ [Next]_vars => MInv'
    <2> SUFFICES ASSUME MInv, [Next]_vars PROVE MInv'
      OBVIOUS
    <2>1. CASE UNCHANGED vars
      BY <2>1 DEF vars, MInv, TypeOK, ToldOK, Offered, Reaches, Frame, PipeOK, QueueOK, Waiting,
                  SettledOK, Answered, Silent, NotificationsAreSilent, AnsweredInOrder
    <2>2. CASE Next
      BY <2>2, SendStep, EndStep, HandleStep DEF Next
    <2> QED  BY <2>1, <2>2
  <1> QED  BY InitMInv, <1>1, PTL DEF Spec

-----------------------------------------------------------------------------
(* No list of tools, over HTTP or stdio and with signing or without, tells *)
(* of a tool that is then not found.                                       *)
THEOREM NothingElseAdvertised == Spec => []AdvertisedIsServed
  <1>1. MInv => AdvertisedIsServed
    BY DEF MInv, ToldOK, Reaches, AdvertisedIsServed
  <1> QED  BY <1>1, SurfaceInductive, PTL

(* Notifications are silent, answers over stdio come once and in the order *)
(* of their requests, and at the end of the pipe none is missing.          *)
THEOREM FramesGetSettled == Spec => []FramesAreSettled
  <1>1. MInv => EofLosesNothing
    <2> SUFFICES ASSUME MInv, returned, NEW i \in DOMAIN asked
                 PROVE  Answered(i) \/ i \in lost \/ Silent(asked[i])
      BY DEF EofLosesNothing
    <2>1. i \in handled
      BY DEF MInv, PipeOK, Waiting
    <2> QED  BY <2>1 DEF MInv, SettledOK
  <1>2. MInv => FramesAreSettled
    BY <1>1 DEF MInv, FramesAreSettled
  <1> QED  BY <1>2, SurfaceInductive, PTL
=============================================================================
