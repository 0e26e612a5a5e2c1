--------------------------- MODULE ToolAgentLoop ---------------------------
(***************************************************************************)
(* One conversation of verl's agent loop (tool_agent_loop.py): the model   *)
(* answers, its answer calls tools that run concurrently or asks the       *)
(* simulated user, and what they say is appended to the ids the model sees *)
(* next, until the response is long enough or nobody has more to say. The  *)
(* ids, the response mask, the log-probabilities and the images grow in    *)
(* four places of the code and must stay in step.                          *)
(*                                                                         *)
(* A token is modelled by who said it and, for a tool, by the number of    *)
(* the call; a message is one token, with one more for its images. Init,   *)
(* Next and their like carry the name of the conversation, as there are    *)
(* those of AgentLoop beside them where both are reasoned about.           *)
(***************************************************************************)
EXTENDS Integers, FiniteSets, Sequences, SequencesExt, FiniteSetsExt

CONSTANTS PromptLength,      \* rollout.prompt_length
          ResponseLength,    \* rollout.response_length
          MaxPrompt,         \* bound on the tokens of the rendered messages
          MaxAnswer,         \* bound on the tokens of one answer
          MaxToolCalls,      \* bound on the calls of one answer
          MaxImages,         \* bound on the images of one tool response
          MaxParallelCalls,  \* multi_turn.max_parallel_calls
          MaxAssistantTurns, \* multi_turn.max_assistant_turns, 0 for null
          MaxUserTurns       \* multi_turn.max_user_turns, 0 for null

ASSUME ToolAgentAssumption ==
  /\ {PromptLength, ResponseLength, MaxPrompt, MaxAnswer, MaxParallelCalls} \subseteq Nat \ {0}
  /\ {MaxToolCalls, MaxImages, MaxAssistantTurns, MaxUserTurns} \subseteq Nat

MaxModelLen == PromptLength + ResponseLength

VARIABLES
  vision,          \* the processor reads images
  logs,            \* calculate_log_probs
  interacts,       \* interaction_config_file is set
  prompt,          \* the messages of the sample, rendered with the tools
  state,           \* AgentState, "RAISED" when run() raised
  prompt_ids, response_mask,
  logprobs,        \* response_logprobs: 1 for the model's, 0 for 0.0
  image_data,      \* per image, its call (0: the sample) and place in it
  tool,            \* per call that is executed, where its coroutine is
  assistant_turns, user_turns

config       == <<vision, logs, interacts, prompt>>
ids          == <<prompt_ids, response_mask, logprobs, image_data>>
turnCounts   == <<assistant_turns, user_turns>>
conversation == <<config, state, ids, tool, turnCounts>>

Token(who, call) == [by |-> who, call |-> call]
Repeated(n, x)   == [k \in 1..n |-> x]

(* The data set leaves out samples of more than prompt_length tokens, but  *)
(* renders them without the tools: the prompt may be longer.               *)
ConversationInit ==
  /\ vision \in BOOLEAN /\ logs \in BOOLEAN /\ interacts \in BOOLEAN
  /\ prompt \in {p \in SeqOf({Token("text", 0), Token("image", 0)}, MaxPrompt) : p # <<>>}
  /\ ~vision => Token("image", 0) \notin ToSet(prompt)
  /\ state = "PENDING"
  /\ prompt_ids = <<>> /\ response_mask = <<>> /\ logprobs = <<>>
  /\ image_data = <<>> /\ tool = <<>>
  /\ assistant_turns = 0 /\ user_turns = 0
----------------------------------------------------------------------------
(* _handle_pending_state. The tokens of one kind, in their order, are the  *)
(* placeholders the processor fills with the images.                       *)
Kind(tokens, who) ==
  FlattenSeq([k \in DOMAIN tokens |-> IF tokens[k].by = who THEN <<tokens[k]>> ELSE <<>>])

Images(tokens) == Kind(tokens, "image")

HandlePending ==
  /\ state = "PENDING"
  /\ prompt_ids' = prompt
  /\ image_data' = Images(prompt)
  /\ state' = "GENERATING"
  /\ UNCHANGED <<config, response_mask, logprobs, tool, turnCounts>>

(* What the handlers append to the ids, the mask and the log-              *)
(* probabilities: tokens of the model count, the others are filled in. A   *)
(* slip: the log-probabilities are not filled in.                          *)
Extend_NotFilledIn(tokens, bit) ==
  /\ prompt_ids' = prompt_ids \o tokens
  /\ response_mask' = response_mask \o Repeated(Len(tokens), bit)
  /\ logprobs' = IF bit = 1 /\ logs THEN logprobs \o Repeated(Len(tokens), bit) ELSE logprobs

Extend(tokens, bit) ==
  /\ prompt_ids' = prompt_ids \o tokens
  /\ response_mask' = response_mask \o Repeated(Len(tokens), bit)
  /\ logprobs' = IF (bit = 1 /\ logs) \/ logprobs # <<>>
                 THEN logprobs \o Repeated(Len(tokens), bit) ELSE logprobs
----------------------------------------------------------------------------
(* _handle_generating_state. The server has max_model_len - len(prompt)    *)
(* tokens to give and raises when that is none.                            *)
Room == MaxModelLen - Len(prompt_ids)

ServerRaises ==
  /\ state = "GENERATING" /\ Room < 1
  /\ state' = "RAISED"
  /\ UNCHANGED <<config, ids, tool, turnCounts>>

Reached(bound, n) == bound # 0 /\ n >= bound

(* The state after an answer that brings the mask to `length` and makes    *)
(* `calls` calls.                                                          *)
AfterAnswer(length, calls) ==
  IF \/ length >= ResponseLength
     \/ Reached(MaxAssistantTurns, assistant_turns + 1)
     \/ Reached(MaxUserTurns, user_turns)
  THEN "TERMINATED"
  ELSE IF calls > 0 THEN "PROCESSING_TOOLS"
  ELSE IF interacts THEN "INTERACTING" ELSE "TERMINATED"

(* The first max_parallel_calls of them get a coroutine. A slip: all are   *)
(* waited for.                                                             *)
Called_All(calls) == [c \in 1..calls |-> [at |-> "create", images |-> 0]]

Called(calls) ==
  [c \in 1..Min({calls, MaxParallelCalls}) |-> [at |-> "create", images |-> 0]]

Answer(n, calls) ==
  /\ state = "GENERATING" /\ n <= Room
  /\ Extend(Repeated(n, Token("model", 0)), 1)
  /\ assistant_turns' = assistant_turns + 1
  /\ state' = AfterAnswer(Len(response_mask) + n, calls)
  /\ tool' = IF state' = "PROCESSING_TOOLS" THEN Called(calls) ELSE <<>>
  /\ UNCHANGED <<config, image_data, user_turns>>
----------------------------------------------------------------------------
(* _call_tool, one coroutine per call: create, execute, release. What      *)
(* create and execute raise becomes the text of the response; what release *)
(* raises leaves the coroutine.                                            *)
Moves(c, from, to, images) ==
  /\ state \in {"PROCESSING_TOOLS", "RAISED"} /\ c \in DOMAIN tool
  /\ tool[c].at = from
  /\ tool' = [tool EXCEPT ![c] = [at |-> to, images |-> images]]
  /\ UNCHANGED <<config, state, ids, turnCounts>>

CallFails(c)     == Moves(c, "create", "returned", 0)  \* no such tool, no JSON, create raises
Create(c)        == Moves(c, "create", "execute", 0)
Execute(c)       == \E n \in 0..MaxImages : Moves(c, "execute", "release", n)  \* 0 when it raises
Release(c)       == Moves(c, "release", "returned", tool[c].images)
ReleaseRaises(c) == Moves(c, "release", "raised", 0)

(* The message of a response: one placeholder, however many images it has. *)
Message(c) ==
  IF tool[c].images > 0 THEN <<Token("image", c), Token("tool", c)>> ELSE <<Token("tool", c)>>

(* add_messages rendered by the chat template, after the system prompt and *)
(* before the prompt for the next answer, cut by len(system_prompt).       *)
System == <<Token("system", 0)>>

Rendered(messages) == System \o messages \o <<Token("assistant", 0)>>

NewIds(messages) == SubSeq(Rendered(messages), Len(System) + 1, Len(Rendered(messages)))

(* The order the responses are put in: that of the calls. A slip: those    *)
(* without an image first.                                                 *)
Responses_TextFirst ==
  SelectSeq([c \in DOMAIN tool |-> c], LAMBDA c : tool[c].images = 0)
    \o SelectSeq([c \in DOMAIN tool |-> c], LAMBDA c : tool[c].images > 0)

Responses == [c \in DOMAIN tool |-> c]

(* The images of the responses: of each the first and those after it.      *)
ImagesFrom(c) ==
  IF tool[c].images = 0 THEN <<>>
  ELSE <<Token("image", c)>> \o Repeated(tool[c].images - 1, Token("further", c))

NewImages == FlattenSeq([k \in DOMAIN Responses |-> ImagesFrom(Responses[k])])

ToolIds == NewIds(FlattenSeq([k \in DOMAIN Responses |-> Message(Responses[k])]))

(* Whether the response has room for them.                                 *)
Fits(tokens) == Len(response_mask) + Len(tokens) < ResponseLength

AllReturned == \A c \in DOMAIN tool : tool[c].at = "returned"

(* _handle_processing_tools_state after gather. The images stay when the   *)
(* ids of the responses are left out.                                      *)
HandleResponses ==
  /\ state = "PROCESSING_TOOLS" /\ AllReturned
  /\ IF NewImages # <<>> /\ ~vision
     THEN state' = "RAISED" /\ UNCHANGED <<ids, turnCounts>>
     ELSE /\ image_data' = image_data \o NewImages
          /\ IF Fits(ToolIds)
             THEN /\ Extend(ToolIds, 0)
                  /\ user_turns' = user_turns + 1
                  /\ state' = "GENERATING"
                  /\ UNCHANGED assistant_turns
             ELSE /\ state' = "TERMINATED"
                  /\ UNCHANGED <<prompt_ids, response_mask, logprobs, turnCounts>>
  /\ UNCHANGED <<config, tool>>

GatherRaises ==
  /\ state = "PROCESSING_TOOLS"
  /\ \E c \in DOMAIN tool : tool[c].at = "raised"
  /\ state' = "RAISED"
  /\ UNCHANGED <<config, ids, tool, turnCounts>>
----------------------------------------------------------------------------
(* _handle_interacting_state: the user says n tokens, and that this is the *)
(* end or not; or generate_response raises.                                *)
UserAnswers(n, should_terminate_sequence) ==
  /\ state = "INTERACTING"
  /\ user_turns' = user_turns + 1
  /\ Extend(NewIds(Repeated(n, Token("user", 0))), 0)
  /\ state' = IF should_terminate_sequence THEN "TERMINATED" ELSE "GENERATING"
  /\ UNCHANGED <<config, image_data, tool, assistant_turns>>

UserRaises ==
  /\ state = "INTERACTING"
  /\ state' = "RAISED"
  /\ UNCHANGED <<config, ids, tool, turnCounts>>

ToolStep(c) == CallFails(c) \/ Create(c) \/ Execute(c) \/ Release(c) \/ ReleaseRaises(c)

ConversationNext ==
  \/ HandlePending \/ ServerRaises \/ HandleResponses \/ GatherRaises \/ UserRaises
  \/ \E n \in 1..MaxAnswer : \/ \E calls \in 0..MaxToolCalls : Answer(n, calls)
                             \/ \E end \in BOOLEAN : UserAnswers(n, end)
  \/ \E c \in 1..MaxParallelCalls : ToolStep(c)

(* The event loop goes on with every coroutine that is ready, and servers, *)
(* tools and users answer.                                                 *)
ConversationFairness ==
  /\ WF_conversation(
       \/ HandlePending \/ ServerRaises \/ HandleResponses \/ GatherRaises \/ UserRaises
       \/ \E n \in 1..MaxAnswer : \/ \E calls \in 0..MaxToolCalls : Answer(n, calls)
                                  \/ \E end \in BOOLEAN : UserAnswers(n, end))
  /\ \A c \in 1..MaxParallelCalls : WF_conversation(ToolStep(c))

ConversationSpec == ConversationInit /\ [][ConversationNext]_conversation /\ ConversationFairness
----------------------------------------------------------------------------
(* run(): the end of prompt_ids is the response. A slice that starts at -0 *)
(* is everything.                                                          *)
Response ==
  IF response_mask = <<>> THEN prompt_ids
  ELSE SubSeq(prompt_ids, Len(prompt_ids) - Len(response_mask) + 1, Len(prompt_ids))

Truncated(seq) == SubSeq(seq, 1, Min({Len(seq), ResponseLength}))

Output ==
  [prompt_ids        |-> SubSeq(prompt_ids, 1, Len(prompt_ids) - Len(response_mask)),
   response_ids      |-> Truncated(Response),
   response_mask     |-> Truncated(response_mask),
   response_logprobs |-> Truncated(logprobs),
   images            |-> image_data]
----------------------------------------------------------------------------
(* Type correctness of the conversation's fields.                          *)
ConversationTypeOK ==
  /\ state \in {"PENDING", "GENERATING", "PROCESSING_TOOLS", "INTERACTING", "TERMINATED", "RAISED"}
  /\ \A t \in ToSet(prompt_ids) : t.by \in {"text", "image", "model", "tool", "user", "assistant"}
  /\ {response_mask, logprobs} \subseteq Seq({0, 1})
  /\ image_data \in Seq([by : {"image", "further"}, call : 0..MaxParallelCalls])
  /\ tool \in Seq([at : {"create", "execute", "release", "returned", "raised"}, images : 0..MaxImages])
  /\ {assistant_turns, user_turns} \subseteq Nat

(* What a conversation returns fits together: the prompt is the sample's,  *)
(* the response is at most response_length tokens, each of them with its   *)
(* mask, which is 1 for exactly the tokens the model said, and with its    *)
(* log-probability when there are any.                                     *)
OutputIsAligned ==
  state = "TERMINATED" =>
    LET out == Output IN
    /\ out.prompt_ids = prompt
    /\ Len(out.response_ids) <= ResponseLength
    /\ Len(out.response_mask) = Len(out.response_ids)
    /\ \A k \in DOMAIN out.response_mask :
         out.response_mask[k] = 1 <=> out.response_ids[k].by = "model"
    /\ out.response_logprobs = IF logs THEN out.response_mask ELSE <<>>

(* Without a simulated user answers and tool responses never take the      *)
(* room for the next answer, however long they are: only a prompt can that *)
(* is longer than prompt_length, and one that is not leaves room for a     *)
(* token. What a user says is not measured.                                *)
RequestsFit ==
  state = "GENERATING" /\ ~interacts => Room > PromptLength - Len(prompt)

(* The placeholders of a request's ids are those of the sample's images,   *)
(* then one per response with images, in the order of the calls, and       *)
(* image_data holds their images in that order. Further images of a        *)
(* response come after its first and have no placeholder, although         *)
(* schemas.py offers [img1, img2, ...].                                    *)
ImagesHaveTokens ==
  state = "GENERATING" => Images(prompt_ids) = Kind(image_data, "image")

(* The model sees one response per call it was granted, in the order of    *)
(* its calls, whatever order the tools returned in and whichever failed.   *)
SinceAnswer == Len(prompt_ids) - Max({0} \cup {k \in DOMAIN prompt_ids : prompt_ids[k].by = "model"})

ResponsesFollowCalls ==
  state = "GENERATING" /\ tool # <<>> =>
    Kind(SubSeq(prompt_ids, Len(prompt_ids) - SinceAnswer + 1, Len(prompt_ids)), "tool")
      = [c \in DOMAIN tool |-> Token("tool", c)]

(* What a request carries is right when it is sent: the room for an        *)
(* answer, an image per placeholder, and the responses in the order of     *)
(* their calls.                                                            *)
RequestsAreConsistent == ConversationTypeOK /\ RequestsFit /\ ImagesHaveTokens /\ ResponsesFollowCalls

(* Every conversation comes to an end: no limit on the turns is needed,    *)
(* because every turn brings the response nearer to its length.            *)
ConversationEnds == <>(state \in {"TERMINATED", "RAISED"})
=============================================================================
