----------------------------- MODULE VoiceAnswer -----------------------------
(***************************************************************************)
(* How a task turns what the language model streams into an answer: the    *)
(* token filter of stream_generate, the sentence buffer of the voice       *)
(* pipeline, the chunks it synthesizes, stores and announces under a link, *)
(* the text pipeline, which only collects the tokens, and the row they     *)
(* leave, with the attempts that raise half-way and start again.           *)
(*                                                                         *)
(* Text is a sequence of symbols: letters, a space, a sentence end, the    *)
(* think tags and the template markers, each of length one.                *)
(***************************************************************************)
EXTENDS Text

CONSTANTS
    Tokens,       \* what one line of the model's stream may bring
    Kinds,        \* task types
    Modes,        \* output modes a client asks for
    Endpoint,     \* seaweedfs_endpoint
    PublicEndpoint,  \* seaweedfs_public_endpoint, or None
    None,
    MinLen,       \* MIN_SENTENCE_LEN
    MaxRetries,   \* MAX_RETRIES of the worker
    MaxTokens,    \* bound: lines streamed in an attempt
    MaxFaults     \* bound: attempts that raise

ASSUME AnswerAssumption ==
    /\ Tokens \subseteq Seq(STRING)
    /\ Kinds \subseteq {"voice", "text"}
    /\ Modes \subseteq {"audio", "text"}
    /\ None \notin {"audio", "text"}
    /\ MinLen \in Nat \ {0}
    /\ MaxRetries \in Nat /\ MaxTokens \in Nat /\ MaxFaults \in Nat

VARIABLES
    row,          \* the task's row
    pc,           \* where execute is
    mode,         \* its output_mode; None in the text pipeline, which has none
    attempt,      \* number of the attempt
    lines,        \* lines of the stream read so far
    said,         \* history: the text of those lines, without template markers
    inThink,      \* in_think of stream_generate
    response,     \* response_tokens, joined
    buffer,       \* sentence_buffer
    ended,        \* whether the stream is exhausted
    sentence,     \* what is being synthesized
    index,        \* chunk_index
    store,        \* the text spoken by the object under each chunk's key
    events,       \* the audio_chunk events
    faults

stream == <<lines, said, inThink, ended>>
vars == <<row, pc, mode, attempt, stream, response, buffer, sentence, index,
          store, events, faults>>

-----------------------------------------------------------------------------
(***************************************************************************)
(* Text.                                                                   *)
(***************************************************************************)
SentenceEnds == {"."}
Markers == {"<|im_end|>", "<|im_start|>"}

Has(text, symbol) == \E i \in DOMAIN text : text[i] = symbol

\* Defect: template markers stay in the text.
CleanTokenKeep(token) == token

\* _clean_token: without template markers.
CleanToken(token) == Kept(token, {i \in DOMAIN token : token[i] \notin Markers})

\* A sentence boundary, long enough to be worth synthesizing.
Flushes(stripped) ==
    /\ Len(stripped) >= MinLen
    /\ Last(stripped) \in SentenceEnds

-----------------------------------------------------------------------------
\* SeaweedFSAdapter: the host of the links it signs.
PresignEndpoint(endpoint, public) == IF public = None THEN endpoint ELSE public

\* The worker builds its adapter without the public endpoint.
WorkerLinkHost == PresignEndpoint(Endpoint, None)

\* Defect: what follows the last sentence end is not spoken.
RemainderNothing == <<>>

\* What is left to speak when the stream ends.
Remainder == Strip(buffer)

\* Defect: the index does not advance.
NextIndexSame == index

NextIndex == index + 1

\* repo.get returns a dict of columns; output_mode is not one of them.
RepoGet(r) == [status |-> r.status, response |-> r.response, error |-> r.error]

\* task_data.get("output_mode") or OutputMode.audio
OutputMode(data) ==
    IF "output_mode" \in DOMAIN data THEN data.output_mode ELSE "audio"

-----------------------------------------------------------------------------
Init ==
    /\ \E type \in Kinds, asked \in Modes :
         row = [task_type |-> type, status |-> "pending", output_mode |-> asked,
                response |-> <<>>, error |-> FALSE]
    /\ pc = "load" /\ mode = None /\ attempt = 1
    /\ lines = 0 /\ said = <<>> /\ inThink = FALSE /\ ended = FALSE
    /\ response = <<>> /\ buffer = <<>> /\ sentence = <<>> /\ index = 0
    /\ store = [i \in 0..MaxTokens |-> <<>>]
    /\ events = <<>>
    /\ faults = 0

\* Read the row, mark it processing; the locals start afresh.
Load ==
    /\ pc = "load"
    /\ mode' = IF row.task_type = "voice" THEN OutputMode(RepoGet(row)) ELSE None
    /\ row' = [row EXCEPT !.status = "processing"]
    /\ pc' = "stream"
    /\ lines' = 0 /\ said' = <<>> /\ inThink' = FALSE /\ ended' = FALSE
    /\ response' = <<>> /\ buffer' = <<>> /\ sentence' = <<>> /\ index' = 0
    /\ UNCHANGED <<attempt, store, events, faults>>

Speak(text) == sentence' = text /\ pc' = "synthesize"

\* generate: tokens.append(token)
Accumulate(token) == response' = response \o token /\ UNCHANGED <<buffer, sentence, pc>>

\* The body of execute's loop, for a token that stream_generate yields.
Receive(token) ==
    LET stripped == RStrip(buffer \o token) IN
    /\ response' = response \o token
    /\ IF Flushes(stripped)
       THEN /\ buffer' = <<>>
            /\ IF mode = "audio" THEN Speak(stripped) ELSE UNCHANGED <<sentence, pc>>
       ELSE buffer' = buffer \o token /\ UNCHANGED <<sentence, pc>>

\* Defect: a block never closes.
StillThinkingForever(thinking, token) == thinking

\* in_think after a token that it was TRUE for.
StillThinking(thinking, token) == thinking /\ ~Has(token, "</think>")

\* One line of the stream: cleaned, filtered and, if anything is left, used.
Line(raw) ==
    LET token == CleanToken(raw)
        thinking == inThink \/ Has(token, "<think>") IN
    /\ pc = "stream"
    /\ lines < MaxTokens
    /\ lines' = lines + 1
    /\ said' = said \o token
    /\ inThink' = StillThinking(thinking, token)
    /\ IF thinking \/ token = <<>>
       THEN UNCHANGED <<response, buffer, sentence, pc>>
       ELSE IF mode = None THEN Accumulate(token) ELSE Receive(token)
    /\ UNCHANGED <<row, mode, attempt, ended, index, store, events, faults>>

EndOfStream ==
    /\ pc = "stream"
    /\ ended' = TRUE
    /\ IF Remainder # <<>> /\ mode = "audio"
       THEN Speak(Remainder) ELSE pc' = "commit" /\ UNCHANGED sentence
    /\ UNCHANGED <<row, mode, attempt, lines, said, inThink, response, buffer,
                   index, store, events, faults>>

\* _synthesize_chunk: speak the sentence and put it under the chunk's key.
Synthesize ==
    /\ pc = "synthesize"
    /\ store' = [store EXCEPT ![index] = sentence]
    /\ pc' = "announce"
    /\ UNCHANGED <<row, mode, attempt, stream, response, buffer, sentence, index,
                   events, faults>>

\* ... and announce it.
Announce ==
    /\ pc = "announce"
    /\ events' = Append(events, [attempt |-> attempt, index |-> index, sentence |-> sentence,
                                host |-> WorkerLinkHost])
    /\ index' = NextIndex
    /\ pc' = IF ended THEN "commit" ELSE "stream"
    /\ UNCHANGED <<row, mode, attempt, stream, response, buffer, sentence, store, faults>>

Commit ==
    /\ pc = "commit"
    /\ row' = [row EXCEPT !.status = "completed", !.response = Strip(response)]
    /\ pc' = "saved"
    /\ UNCHANGED <<mode, attempt, stream, response, buffer, sentence, index, store,
                   events, faults>>

\* cache.set and the complete event, after which nothing raises.
Finish ==
    /\ pc = "saved"
    /\ pc' = "done"
    /\ UNCHANGED <<row, mode, attempt, stream, response, buffer, sentence, index,
                   store, events, faults>>

\* A call raises: the row says failed, the worker tries again or gives up.
Raise ==
    /\ pc \in {"stream", "synthesize", "announce", "commit", "saved"}
    /\ faults < MaxFaults
    /\ faults' = faults + 1
    /\ row' = [row EXCEPT !.status = "failed", !.error = TRUE]
    /\ IF attempt <= MaxRetries
       THEN attempt' = attempt + 1 /\ pc' = "load"
       ELSE pc' = "done" /\ UNCHANGED attempt
    /\ UNCHANGED <<mode, stream, response, buffer, sentence, index, store, events>>

Next ==
    \/ Load \/ EndOfStream \/ Synthesize \/ Announce \/ Commit \/ Finish \/ Raise
    \/ \E raw \in Tokens : Line(raw)

Spec == Init /\ [][Next]_vars

-----------------------------------------------------------------------------
Text == Seq((UNION {{raw[i] : i \in DOMAIN raw} : raw \in Tokens}) \ Markers)

\* Every variable has its type.
TypeOK ==
    /\ row \in [task_type : Kinds, status : {"pending", "processing", "completed", "failed"},
                output_mode : Modes, response : Text, error : BOOLEAN]
    /\ pc \in {"load", "stream", "synthesize", "announce", "commit", "saved", "done"}
    /\ mode \in {"audio", "text", None}
    /\ attempt \in 1..MaxRetries + 1
    /\ lines \in 0..MaxTokens
    /\ said \in Text /\ response \in Text /\ buffer \in Text /\ sentence \in Text
    /\ inThink \in BOOLEAN /\ ended \in BOOLEAN
    /\ index \in 0..MaxTokens + 1
    /\ store \in [0..MaxTokens -> Text]
    /\ events \in Seq([attempt : 1..MaxRetries + 1, index : 0..MaxTokens, sentence : Text,
                      host : {Endpoint, PublicEndpoint}])
    /\ faults \in 0..MaxFaults

\* What the attempt that is running, or ran last, has announced, in order.
Announced == Kept(events, {i \in DOMAIN events : events[i].attempt = attempt})

(* When a voice task is completed, the sentences announced by the attempt   *)
(* that completed it spell the response in its row, but for white space:    *)
(* wherever the tokens split, nothing is lost, spoken twice or reordered,   *)
(* and nothing of a failed attempt gets in.  (execute's sentence buffer.)   *)
ChunksSpellResponse ==
    row.status = "completed" /\ mode = "audio" =>
        Squeeze(FlattenSeq([i \in DOMAIN Announced |-> Announced[i].sentence]))
        = Squeeze(row.response)

(* The object behind every chunk an attempt announced speaks the sentence   *)
(* of the announcement, although all attempts write to the same keys.       *)
(* (_synthesize_chunk; it holds for the latest attempt only.)               *)
ChunksSpeakTheirSentence ==
    \A i \in DOMAIN Announced : store[Announced[i].index] = Announced[i].sentence

\* The reference reading of the stream: what is in no think block.
InBlock(text, i) ==
    \/ text[i] = "<think>"
    \/ \E j \in 1..i - 1 : /\ text[j] = "<think>"
                           /\ \A k \in j..i - 1 : text[k] # "</think>"

Visible(text) == Kept(text, {i \in DOMAIN text : ~InBlock(text, i)})

(* "Filter <think>...</think> blocks": the response is what the model said  *)
(* outside its think blocks, no more and no less (stream_generate).  It     *)
(* holds when every tag comes in a token of its own.                        *)
ThoughtsFiltered == pc # "load" => response = Visible(said)

(* The submit form documents output_mode "text = ASR+LLM only": such a task *)
(* synthesizes no speech.                                                   *)
TextModeIsSilent == row.output_mode = "text" => events = <<>>

(* "public-facing URL for presigned URLs; defaults to seaweedfs_endpoint":  *)
(* the links a client is given lead to the public endpoint, if there is one *)
(* (_synthesize_chunk's presign).                                           *)
LinksArePublic ==
    \A i \in DOMAIN events : events[i].host = PresignEndpoint(Endpoint, PublicEndpoint)
=============================================================================
