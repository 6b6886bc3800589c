------------------------------ MODULE LLMJson -------------------------------
(***************************************************************************)
(* parseJSONResponse of pkg/llmjson.go: how planning, execution and the    *)
(* build-fix diagnosis find the JSON object in what the model answers.     *)
(*                                                                         *)
(* An answer is a sequence of tokens: the two braces, a member of an       *)
(* object, a word of prose, a fence line, and members whose string holds a *)
(* brace.  Any whole object is one that unmarshals.                        *)
(***************************************************************************)
EXTENDS Integers, Sequences, FiniteSetsExt

CONSTANTS Tokens,    \* tokens an answer may hold
          MaxTokens  \* bound: tokens of an answer

TokenKinds ==
    {"open", "close", "member", "word", "fence", "openInString", "closeInString"}

ASSUME LLMJsonAssumption == Tokens \subseteq TokenKinds /\ MaxTokens \in Nat

VARIABLES response,
          jsonStage,  \* "direct", "fence", "block", "parsed", "failed"
          object      \* what was unmarshalled: a subsequence of response

jsonVars == <<response, jsonStage, object>>

Responses == UNION {[1..n -> Tokens] : n \in 0..MaxTokens}

JsonInit(responses) ==
    /\ response \in responses
    /\ jsonStage = "direct"
    /\ object = <<>>

-----------------------------------------------------------------------------
Nesting(c) == CASE c = "open" -> 1 [] c = "close" -> -1 [] OTHER -> 0

(* The nesting after the first i tokens, as JSON sees it.                  *)
Depth(s, i) ==
    LET d[k \in 0..i] == IF k = 0 THEN 0 ELSE d[k - 1] + Nesting(s[k])
    IN  d[i]

(* json.Unmarshal into a struct succeeds.                                  *)
IsObject(s) ==
    /\ Len(s) >= 2
    /\ \A i \in 1..Len(s) : s[i] \notin {"word", "fence"}
    /\ \A i \in 1..(Len(s) - 1) : Depth(s, i) > 0
    /\ Depth(s, Len(s)) = 0

(* The braces lastJSONBlock sees, in strings or not.                       *)
OpeningBraces == {"open", "openInString"}

ClosingBraces == {"close", "closeInString"}

Balance(c) == CASE c \in ClosingBraces -> 1 [] c \in OpeningBraces -> -1 [] OTHER -> 0

(* The nesting between i and end, brace by brace.                          *)
OpenBraces(s, i, end) ==
    LET d[k \in 0..(end - i + 1)] ==
          IF k = 0 THEN 0 ELSE d[k - 1] + Balance(s[end - k + 1])
    IN  d[end - i + 1]

(* The greatest of some positions, 0 if there is none.                     *)
Latest(S) == Max(S \cup {0})

LastBrace(s) == Latest({i \in DOMAIN s : s[i] \in ClosingBraces})

(* Mutant: from the first brace on.                                        *)
WidestBlock(s) ==
    LET end == LastBrace(s)
        opens == {i \in 1..(end - 1) : s[i] \in OpeningBraces}
    IN  IF opens = {} THEN <<>>
        ELSE SubSeq(s, Min(opens), end)

(* From the last closing brace back to the brace that balances it; <<>>    *)
(* stands for false.                                                       *)
LastJSONBlock(s) ==
    LET end == LastBrace(s)
        start == Latest({i \in 1..end : OpenBraces(s, i, end) = 0})
    IN  IF end = 0 \/ start = 0 THEN <<>> ELSE SubSeq(s, start, end)

(* jsonFenceRegexp: what stands between the first two fence lines.         *)
Fenced(s) ==
    LET fences == {i \in DOMAIN s : s[i] = "fence"}
        rest == fences \ {Min(fences)}
    IN  IF fences = {} \/ rest = {} THEN <<>>
        ELSE SubSeq(s, Min(fences) + 1, Min(rest) - 1)

Take(s) == jsonStage' = "parsed" /\ object' = s

Direct == /\ jsonStage = "direct"
          /\ IF IsObject(response)
             THEN Take(response)
             ELSE jsonStage' = "fence" /\ UNCHANGED object
          /\ UNCHANGED response

Fence == /\ jsonStage = "fence"
         /\ IF IsObject(Fenced(response))
            THEN Take(Fenced(response))
            ELSE jsonStage' = "block" /\ UNCHANGED object
         /\ UNCHANGED response

Block == /\ jsonStage = "block"
         /\ IF IsObject(LastJSONBlock(response))
            THEN Take(LastJSONBlock(response))
            ELSE jsonStage' = "failed" /\ UNCHANGED object
         /\ UNCHANGED response

JsonOver == jsonStage \in {"parsed", "failed"} /\ UNCHANGED jsonVars

JsonNext == Direct \/ Fence \/ Block \/ JsonOver

-----------------------------------------------------------------------------
HasFence == \E i \in DOMAIN response : response[i] = "fence"

(* Where the object starts that ends at token j; 0 where none does.        *)
ObjectAt(j) == Latest({i \in 1..j : IsObject(SubSeq(response, i, j))})

(* The type of every variable; what was parsed is an object.               *)
JsonTypeOK == /\ response \in Seq(TokenKinds)
              /\ jsonStage \in {"direct", "fence", "block", "parsed", "failed"}
              /\ object \in Seq(TokenKinds)
              /\ jsonStage = "parsed" => IsObject(object)

(* An answer that ends its message with the object, whatever prose,        *)
(* example or broken fragment precedes it, is parsed as that object.       *)
FinalObjectIsParsed ==
    jsonStage \in {"parsed", "failed"} /\ ~HasFence /\ ObjectAt(Len(response)) # 0 =>
        object = SubSeq(response, ObjectAt(Len(response)), Len(response))

(* A member of a larger object is never taken for the answer.              *)
NeverAMember ==
    jsonStage = "parsed" /\ ~HasFence =>
        \E i, j \in DOMAIN response :
            /\ object = SubSeq(response, i, j)
            /\ \A k, l \in DOMAIN response :
                   k <= i /\ j <= l /\ IsObject(SubSeq(response, k, l)) => k = i /\ l = j

(* An object between the first two fences is the answer, whatever braces   *)
(* stand elsewhere.                                                        *)
FencedObjectIsParsed ==
    jsonStage \in {"parsed", "failed"} =>
        \A i, j \in DOMAIN response :
            /\ i < j
            /\ {k \in 1..j : response[k] = "fence"} = {i, j}
            /\ IsObject(SubSeq(response, i + 1, j - 1))
            => object = SubSeq(response, i + 1, j - 1)

(* parseJSONResponse finds the answer and nothing that only looks like it. *)
AnswerIsFound == /\ JsonTypeOK
                 /\ FinalObjectIsParsed
                 /\ NeverAMember
                 /\ FencedObjectIsParsed

-----------------------------------------------------------------------------
(* lastJSONBlock "returns the last balanced {...} substring in s, or "",   *)
(* false if none exists", which Run reports as "no JSON object found".     *)
NoObjectIsTrue ==
    jsonStage = "failed" /\ LastJSONBlock(response) = <<>> =>
        ~\E i, j \in DOMAIN response : IsObject(SubSeq(response, i, j))
=============================================================================
