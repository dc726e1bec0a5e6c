------------------------- MODULE SpeculativeDecode -------------------------
(***************************************************************************)
(* Text generation of DomainSlice (domainslice/generate.py) with its       *)
(* self-speculative rounds (domainslice/speculative.py).  The model's      *)
(* weights are abstracted to what decoding depends on: after the prompt    *)
(* and a prefix of the text, the full model (orig_top_k experts) wants one *)
(* certain next token, Goal; the draft model (draft_top_k experts) may     *)
(* want anything; and a run whose KV cache is not the one of that prefix,  *)
(* computed by the full model, may want anything too.                      *)
(*                                                                         *)
(* The first token is sampled.  With a temperature the plain loop samples  *)
(* all others as well, so Goal is then the text it samples; a speculative  *)
(* round always takes the most likely token.  Commit routing, which makes  *)
(* the full model depend on the memory cache, is taken to be off.          *)
(***************************************************************************)
EXTENDS Integers, Sequences, FiniteSets, SequencesExt

CONSTANTS Tokens,       \* the vocabulary
          EosIds,       \* eos_token_ids
          Prompt,       \* prompt_tokens
          SpecKs,       \* the values of spec_k
          MaxNews,      \* the values of max_new_tokens
          Horizon       \* bound: the longest text a run can look at (the last round overshoots)

ASSUME DecodeAssumption ==
  /\ IsFiniteSet(Tokens) /\ EosIds \subseteq Tokens
  /\ Prompt \in Seq(Tokens) /\ Prompt # <<>>
  /\ SpecKs \subseteq Nat \ {0} /\ MaxNews \subseteq Nat
  /\ Horizon \in Nat /\ \A m \in MaxNews, k \in SpecKs : m + k + 1 <= Horizon

VARIABLES speculative,   \* speculative and resident_backbone
          specK, maxNew,
          goal,          \* the text the full model wants, eos included
          phase,         \* what the program does next
          kv,            \* the KV cache: entries [token, full]
          fullTopK,      \* do the gates choose orig_top_k experts?
          out,           \* generated_ids, streamed as it grows
          next,          \* the token the last logits want
          draft,         \* draft_tokens
          accepted       \* accepted_tokens, the part not yet streamed

decodeVars == <<speculative, specK, maxNew, goal, phase, kv, fullTopK, out, next,
          draft, accepted>>
inputs == <<speculative, specK, maxNew, goal>>

KvEntry(token, full) == [token |-> token, full |-> full]
Exact(tokens) == [i \in DOMAIN tokens |-> KvEntry(tokens[i], TRUE)]

\* What the next logits may want after a run of token at this KV cache.
Wants(cache) ==
  LET n == Len(cache) - Len(Prompt)
  IN  IF n < Horizon /\ cache = Exact(Prompt \o SubSeq(goal, 1, n)) THEN {goal[n + 1]} ELSE Tokens

\* A run appends its token to the KV cache and returns logits.
Cached(token) == Append(kv, KvEntry(token, fullTopK))
Run(token) == kv' = Cached(token) /\ next' \in Wants(Cached(token))

\* At the start of a round: the last token of the text is not in the cache yet.
Pos == Len(Prompt) + Len(out) - 1

DecodeInit ==
  /\ speculative \in BOOLEAN /\ specK \in SpecKs /\ maxNew \in MaxNews
  /\ goal \in [1 .. Horizon -> Tokens]
  /\ phase = "prefill" /\ kv = <<>> /\ fullTopK = TRUE
  /\ out = <<>> /\ next = Prompt[1] /\ draft = <<>> /\ accepted = <<>>

\* The prompt goes through the full model token by token.
Prefill ==
  /\ phase = "prefill"
  /\ LET cache == Exact(SubSeq(Prompt, 1, Len(kv) + 1))
         last == Len(cache) = Len(Prompt)
     IN  /\ kv' = cache
         /\ next' = IF last THEN goal[1] ELSE next
         /\ phase' = IF ~last THEN "prefill" ELSE IF speculative THEN "first" ELSE "plain"
  /\ UNCHANGED <<inputs, fullTopK, out, draft, accepted>>

-----------------------------------------------------------------------------
\* The plain loop: stop at eos or the limit, stream the token, and run it
\* unless it is the last.
PlainStep ==
  /\ phase = "plain"
  /\ IF Len(out) >= maxNew \/ next \in EosIds
     THEN phase' = "returned" /\ UNCHANGED <<kv, next, out>>
     ELSE /\ phase' = phase
          /\ out' = Append(out, next)
          /\ IF Len(out') = maxNew THEN UNCHANGED <<kv, next>> ELSE Run(next)
  /\ UNCHANGED <<inputs, fullTopK, draft, accepted>>

-----------------------------------------------------------------------------

FirstText == IF next \in EosIds THEN out ELSE Append(out, next)

\* The first token of speculative decoding comes from the prefill's logits.
First ==
  /\ phase = "first"
  /\ out' = FirstText
  /\ phase' = "round"
  /\ UNCHANGED <<inputs, kv, fullTopK, next, draft, accepted>>

\* Mutant: the loop stops one token early.
FullEarly == Len(out) + 1 >= maxNew

Full == Len(out) >= maxNew

AfterLoop == "returned"

\* The head of the loop.  The last token of an empty text is an IndexError.
Round ==
  /\ phase = "round"
  /\ phase' = IF Full THEN AfterLoop ELSE IF out = <<>> THEN "crashed" ELSE "draft"
  /\ fullTopK' = (phase' # "draft")
  /\ draft' = <<>>
  /\ UNCHANGED <<inputs, kv, out, next, accepted>>

\* One run of the draft model, at the KV entries its earlier runs made.
DraftStep ==
  /\ phase = "draft" /\ Len(draft) < specK
  /\ Run(IF draft = <<>> THEN Last(out) ELSE Last(draft))
  /\ draft' = Append(draft, next')
  /\ UNCHANGED <<inputs, phase, fullTopK, out, accepted>>

\* Mutant: the cache keeps the entry of the round's first token.
CroppedShort == IF draft = <<>> THEN kv ELSE SubSeq(kv, 1, Len(kv) - Len(draft) + 1)

\* crop(-len(draft_tokens))
Cropped == SubSeq(kv, 1, Len(kv) - Len(draft))

\* The finally block: the cache loses the draft's entries and the gates get
\* the full model back.
EndDraft ==
  /\ phase = "draft" /\ Len(draft) = specK
  /\ kv' = Cropped
  /\ fullTopK' = TRUE
  /\ phase' = "verify"
  /\ accepted' = <<>>
  /\ UNCHANGED <<inputs, out, next, draft>>

\* The runs of the verification so far, one per accepted token.
Verified == Len(accepted)

\* Mutant: the draft's token is streamed although the full model wants another.
TrustDraft(wanted) == draft[Verified + 1]

\* A rejected draft is replaced by the token the full model wants.
Correction(wanted) == wanted

\* The full model runs the token before a drafted one; the round ends at the
\* first that differs.
VerifyStep ==
  /\ phase = "verify" /\ Verified < Len(draft)
  /\ Run(IF Verified = 0 THEN Last(out) ELSE Last(accepted))
  /\ accepted' = Append(accepted, Correction(next'))
  /\ phase' = IF next' = draft[Verified + 1] THEN "verify" ELSE "stream"
  /\ UNCHANGED <<inputs, fullTopK, out, draft>>

\* After a draft accepted to its end the model runs its last token as well.
Bonus ==
  /\ phase = "verify" /\ Verified = Len(draft)
  /\ Run(Last(accepted))
  /\ accepted' = Append(accepted, next')
  /\ phase' = "stream"
  /\ UNCHANGED <<inputs, fullTopK, out, draft>>

\* max_new_tokens is reached in the middle of a round.
LimitReached == Len(out) + 1 >= maxNew

\* The accepted tokens are streamed one by one up to eos or the limit.
Stream ==
  /\ phase = "stream"
  /\ IF Head(accepted) \in EosIds
     THEN phase' = "returned" /\ accepted' = <<>> /\ UNCHANGED out
     ELSE /\ out' = Append(out, Head(accepted))
          /\ accepted' = IF LimitReached THEN <<>> ELSE Tail(accepted)
          /\ phase' = IF accepted' = <<>> THEN "round" ELSE "stream"
  /\ UNCHANGED <<inputs, kv, fullTopK, next, draft>>

\* A run raises: the finally block crops and restores, and the generation ends.
Raise ==
  /\ phase \in {"draft", "verify"} /\ fullTopK' = TRUE
  /\ kv' = IF phase = "draft" THEN Cropped ELSE kv
  /\ phase' = "raised"
  /\ UNCHANGED <<inputs, out, next, draft, accepted>>

Over == phase \in {"returned", "crashed", "raised"}
DecodeStopped == Over /\ UNCHANGED decodeVars

DecodeNext ==
  \/ Prefill \/ PlainStep \/ First \/ Round \/ DraftStep \/ EndDraft
  \/ VerifyStep \/ Bonus \/ Stream \/ Raise \/ DecodeStopped

\* The program goes on by itself.
DecodeSpec == DecodeInit /\ [][DecodeNext]_decodeVars /\ WF_decodeVars(DecodeNext)

-----------------------------------------------------------------------------
\* Types of the variables.
TextTypeOK ==
  /\ phase \in {"prefill", "plain", "first", "round", "draft", "verify", "stream",
                "returned", "crashed", "raised"}
  /\ kv \in Seq([token : Tokens, full : BOOLEAN])
  /\ out \in Seq(Tokens \ EosIds) /\ draft \in Seq(Tokens) /\ accepted \in Seq(Tokens)
  /\ next \in Tokens /\ Len(draft) <= specK /\ Len(accepted) <= specK + 1

\* How much of the goal precedes the first eos and fits the limit.
Limit == IF speculative /\ maxNew = 0 THEN 1 ELSE maxNew
Wanted == {n \in 0 .. Limit : \A i \in 1 .. n : goal[i] \notin EosIds}

\* Speculation changes nothing but speed: at every moment the text streamed is
\* a prefix of what the full model alone generates (the verification phase of
\* SpeculativeMoEDecoder.generate_step), never past an eos or the limit.  (A limit of 0
\* still streams the first token in the speculative loop.)
StreamsGoal == Len(out) \in Wanted /\ IsPrefix(out, goal)

\* A generation that returns streamed all of it; the one that crashes is the
\* speculative one whose first token is eos.
ReturnsAll ==
  /\ phase = "returned" => \A n \in Wanted : n <= Len(out)
  /\ phase = "crashed" => goal[1] \in EosIds /\ speculative

\* At the head of a round the KV cache holds exactly the prompt and the text
\* without its last token, all of it computed by the full model: nothing of a
\* draft, rejected or accepted, stays behind, and pos is its length.
CacheIsExact ==
  phase \in {"round", "draft"} /\ draft = <<>> /\ out # <<>> /\ Len(out) < maxNew =>
    Len(kv) = Pos /\ kv = Exact(Prompt \o Front(out))

\* The generation ends, unless it crashes or raises with its text returned.
Ends == <>Over

\* Plain greedy decoding, which every mode implements.
Greedy == INSTANCE GreedyDecode WITH text <- out, ended <- phase = "returned"
ImplementsGreedy == Greedy!Spec

\* A generation ends, and its text is the goal.
TextIsGoal == [](TextTypeOK /\ StreamsGoal /\ ReturnsAll) /\ Ends
=============================================================================
