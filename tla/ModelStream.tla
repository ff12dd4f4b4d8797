----------------------------- MODULE ModelStream -----------------------------
(***************************************************************************)
(* One reply of a model on its way to the chat: the gateway that turns the *)
(* provider's deltas into chunks (src/agents/modal-gateway.ts and          *)
(* model-gateway.ts), the router and the splitter that tell reasoning from *)
(* content (reasoning-router.ts, reasoning-tag-splitter.ts) and the        *)
(* handler that says the prose and names the files (stream-handler.ts).    *)
(* The provider cuts the reply where it likes.                             *)
(*                                                                         *)
(* A text is a sequence of characters; one letter stands for every         *)
(* character no rule tells apart.  "k" is the name of a think tag and "f"  *)
(* the mark filename: of a fence, each a character of its own here; "t" is *)
(* a backtick, "q" a quotation mark, "s" a blank and "n" a newline.        *)
(***************************************************************************)
EXTENDS Integers, FiniteSets, SequencesExt

CONSTANTS Answer,   \* what models write: a text, and the indexes of its calls
          Call,     \* all those indexes
          ArgLen,   \* fragments the arguments of a call come in
          MaxField, \* deltas of the provider's reasoning field
          MaxCuts   \* deltas of content but for the last

Letter  == {"w", "<", ">", "/", "k", "s", "n", "t", "f", ".", "{", "q"}
Letters == Seq(Letter)

ASSUME StreamAssumption ==
  /\ Answer # {} /\ \A a \in Answer : a.text \in Letters /\ a.calls \subseteq Call
  /\ Call \subseteq Nat
  /\ ArgLen \in Nat \ {0} /\ MaxField \in Nat /\ MaxCuts \in Nat

VARIABLES
  gateway,         \* "modal" or "anthropic"
  text, wanted,    \* the whole reply, and the calls it makes
  read, cuts,      \* how many characters arrived, in how many deltas
  buffer, inside,  \* the splitter's
  ordered,         \* the router's pieces, in order of arrival
  h,               \* the locals of handleAgentStream()
  args, order,     \* toolBuffers: fragments by index, and its keys
  reply,           \* "idle", "streaming", "ended" or "failed"
  calls, stopReason, \* what the gateway yielded for tools and at the end
  cutTag, cutShort \* observed: a delta ended in a tag after its name;
                   \* the body ended before the reply did

split == <<buffer, inside, ordered>>
wire  == <<gateway, text, wanted, read, cuts, cutTag, cutShort>>
tools == <<args, order, calls>>
streamVars == <<wire, split, h, tools, reply, stopReason>>

From(s, i) == SubSeq(s, i, Len(s))
Upto(s, i) == SubSeq(s, 1, i)
HasAt(s, i, t) == i + Len(t) - 1 <= Len(s) /\ SubSeq(s, i, i + Len(t) - 1) = t
Places(s, t) == {i \in DOMAIN s : HasAt(s, i, t)}
Least(S) == CHOOSE x \in S : \A y \in S : x <= y

-----------------------------------------------------------------------------
(* The splitter                                                            *)

Opening == <<"<", "k">>       \* "<think"; its tag may have attributes
Closing == <<"<", "/", "k">>  \* "</think", and ">" at once

\* OPEN_RE and CLOSE_RE: the tags of a text, as <<first, last>>.
OpenTags(b) ==
  {t \in Places(b, Opening) \X DOMAIN b :
     LET i == t[1]
         j == t[2]
     IN  /\ i + 2 <= j /\ b[j] = ">"
         /\ \A x \in i + 2 .. j - 1 : b[x] # ">"
         /\ j = i + 2 \/ b[i + 2] = "s" \/ (j = i + 3 /\ b[i + 2] = "/")}
CloseTags(b) == {<<i, i + 3>> : i \in Places(b, Append(Closing, ">"))}

First(tags) == CHOOSE t \in tags : \A u \in tags : t[1] <= u[1]

\* mutant of trailingPartialTagLength: only "<" counts as the start of a tag.
trailingPartialTagLength_FirstOnly(b, literal) ==
  IF b # <<>> /\ Last(b) = "<" THEN 1 ELSE 0

\* The longest tail of b that may still become the literal.
trailingPartialTagLength(b, literal) ==
  Max({0} \cup {n \in 1 .. Len(literal) - 1 :
                  n <= Len(b) /\ HasAt(b, Len(b) - n + 1, Upto(literal, n))})

Piece(kind, t) == IF t = <<>> THEN <<>> ELSE <<[kind |-> kind, text |-> t]>>

KindOf(in) == IF in THEN "reasoning" ELSE "content"
TagsOf(b, in) == IF in THEN CloseTags(b) ELSE OpenTags(b)
KeptOf(b, in) == Len(b) - trailingPartialTagLength(b, IF in THEN Closing ELSE Opening)

\* feed(): the pieces of a buffer that are certain, what is held and the mode.
Feed[s \in Letters \X BOOLEAN] ==
  LET b == s[1]
      in == s[2]
      tag == First(TagsOf(b, in))
      more == Feed[<<From(b, tag[2] + 1), ~in>>]
  IN  IF TagsOf(b, in) # {}
      THEN [more EXCEPT !.pieces = Piece(KindOf(in), Upto(b, tag[1] - 1)) \o @]
      ELSE [pieces |-> Piece(KindOf(in), Upto(b, KeptOf(b, in))),
            buffer |-> From(b, KeptOf(b, in) + 1), inside |-> in]
Split(b, in) == Feed[<<b, in>>]

\* flush(): the rest; of a tag that began and never closed, nothing.
Rest(b, in) ==
  IF in THEN Piece("reasoning", Upto(b, Len(b) - trailingPartialTagLength(b, Closing)))
        ELSE Piece("content", b)

\* What a whole text says, read at once.
AtOnce(t) == LET s == Split(t, FALSE) IN s.pieces \o Rest(s.buffer, s.inside)

TextOf(kind, pieces) ==
  FlattenSeq([i \in DOMAIN pieces |->
                IF pieces[i].kind = kind THEN pieces[i].text ELSE <<>>])

-----------------------------------------------------------------------------
(* The router                                                              *)

\* feed() and record(): what arrived, and by which way.
Tracked(pieces, source) ==
  [i \in DOMAIN pieces |->
     [kind |-> pieces[i].kind, text |-> pieces[i].text,
      source |-> IF pieces[i].kind = "content" THEN "content" ELSE source]]

\* The thinking that was split out of the content.
FromTags(pieces) ==
  FlattenSeq([i \in DOMAIN pieces |->
                IF pieces[i].source = "tags" THEN pieces[i].text ELSE <<>>])

\* mutant of historyText: thinking is not replayed.
historyText_ContentOnly(pieces) == TextOf("content", pieces)

\* The model's turn as the next round replays it.
historyText(pieces) ==
  FlattenSeq([i \in DOMAIN pieces |->
    CASE pieces[i].source = "content" -> pieces[i].text
      [] pieces[i].source = "tags" ->
           <<"<", "k", ">">> \o pieces[i].text \o <<"<", "/", "k", ">">>
      [] OTHER -> <<>>])

-----------------------------------------------------------------------------
(* The handler                                                             *)

Fence == <<"t", "t", "t">>
Space == {"s", "n"}

\* inCodeNow: an odd number of fences so far, of three ticks of their own each.
Fences(t) ==
  {i \in Places(t, Fence) :
     (i - Least({r \in 1 .. i : \A x \in r .. i : t[x] = "t"})) % 3 = 0}
InCode(content) == Cardinality(Fences(content)) % 2 = 1

TrimStart(t) == LET words == {i \in DOMAIN t : t[i] \notin Space}
                IN  IF words = {} THEN <<>> ELSE From(t, Least(words))

looksStructured(t) ==
  (TrimStart(t) # <<>> /\ Head(TrimStart(t)) = "{") \/ Places(t, <<"{", "q">>) # {}

\* The ends of sentences and lines: a stop before a blank or the end, or "n".
Ends(t) == {e \in DOMAIN t : \/ t[e] = "n"
                             \/ t[e] = "." /\ e = Len(t)
                             \/ e > 1 /\ t[e] = "s" /\ t[e - 1] = "."}

\* A message grows by a text; one without text closes it.
Say(s, t) == [s EXCEPT !.said = Append(@, t), !.emitting = TRUE]
Close(s) == IF s.emitting
            THEN [s EXCEPT !.said = Append(@, <<>>), !.emitting = FALSE] ELSE s
Quiet(s) == [s EXCEPT !.suppressed = TRUE, !.buf = <<>>]

SayNext(s) ==
  LET e == Least(Ends(s.buf))
  IN  IF s.suppressed \/ Ends(s.buf) = {} THEN s
      ELSE IF looksStructured(Upto(s.buf, e)) THEN Quiet(s)
      ELSE [Say(s, Upto(s.buf, e)) EXCEPT !.buf = From(@, e + 1)]

\* Says the whole sentences of the buffer, until one is structured data; none
\* is without a character.
SayWhole(s) ==
  LET after[n \in 0 .. Len(s.buf)] == IF n = 0 THEN s ELSE SayNext(after[n - 1])
      said == after[Len(s.buf)]
  IN  IF said.suppressed \/ looksStructured(said.buf) THEN Quiet(said) ELSE said

\* mutant of Prose: what was held back is kept as well as said.
Prose_HeldTwice(s, t) ==
  LET p == s.held \o t
      held == IF Len(p) > 3 THEN From(p, Len(p) - 2) ELSE <<>>
  IN  SayWhole([s EXCEPT !.held = held, !.buf = @ \o p])

\* Outside a fence: three characters of the chunk wait for the next one.
Prose(s, t) ==
  LET p == s.held \o t
      held == IF Len(p) > 3 THEN From(p, Len(p) - 2) ELSE <<>>
  IN  SayWhole([s EXCEPT !.held = held, !.buf = @ \o Upto(p, Len(p) - Len(held))])

HasWords(t) == TrimStart(t) # <<>>

\* Inside a fence: the sentence that led into it goes out, the held tail dies.
Code(s) ==
  LET spoken == IF ~s.suppressed /\ HasWords(s.buf) THEN Say(s, s.buf) ELSE s
      quiet  == IF spoken.emitting THEN FALSE ELSE s.suppressed
  IN  [Close(spoken) EXCEPT !.held = <<>>, !.buf = <<>>, !.suppressed = quiet]

\* A fence's name, as far as it has arrived.
Names(content) ==
  {i \in Places(content, Append(Fence, "f")) :
     i + 4 <= Len(content) /\ content[i + 4] # "n"}
NameAt(content, i) ==
  LET line == {j \in i + 4 .. Len(content) : content[j] = "n"}
  IN  SubSeq(content, i + 4, IF line = {} THEN Len(content) ELSE Least(line) - 1)

\* mutant of NameFile: the file before is not closed.
NameFile_LeftOpen(s) ==
  IF Cardinality(Names(s.content)) <= s.named THEN s
  ELSE LET name == NameAt(s.content, Max(Names(s.content)))
       IN  [s EXCEPT !.named = Cardinality(Names(s.content)), !.writing = name,
                     !.files = @ \o <<[event |-> "writing", file |-> name]>>]

\* The file transitions, scanned when the number of fences grew.
NameFile(s) ==
  IF Cardinality(Names(s.content)) <= s.named THEN s
  ELSE LET name == NameAt(s.content, Max(Names(s.content)))
           done == IF s.writing = <<>> THEN <<>>
                   ELSE <<[event |-> "done", file |-> s.writing]>>
           seen == [s EXCEPT !.named = Cardinality(Names(s.content))]
       IN  IF name = s.writing THEN seen
           ELSE [seen EXCEPT !.writing = name,
                   !.files = @ \o done \o <<[event |-> "writing", file |-> name]>>]

handleContentText(s, t) ==
  LET named == NameFile([s EXCEPT !.content = @ \o t])
  IN  IF InCode(named.content) THEN Code(named) ELSE Prose(named, t)

handlePiece(s, p) ==
  IF p.kind = "content" THEN handleContentText(s, p.text)
  ELSE [s EXCEPT !.thoughts = Append(@, p.text)]

processPieces(s, pieces) ==
  LET after[n \in 0 .. Len(pieces)] ==
        IF n = 0 THEN s ELSE handlePiece(after[n - 1], pieces[n])
  IN  after[Len(pieces)]

\* At the end: the tail after the last sentence, the held characters, the close.
flushProse(s) ==
  IF s.suppressed THEN [s EXCEPT !.buf = <<>>, !.held = <<>>]
  ELSE LET tail == IF HasWords(s.buf) /\ ~looksStructured(s.buf) THEN Say(s, s.buf) ELSE s
           held == IF tail.held = <<>> THEN tail
                   ELSE [tail EXCEPT !.said = Append(@, tail.held)]
       IN  [Close(held) EXCEPT !.buf = <<>>, !.held = <<>>]

CloseFile(s) == IF s.writing = <<>> THEN s
                ELSE [s EXCEPT !.files = Append(@, [event |-> "done", file |-> s.writing])]

Quietly == [content |-> <<>>, held |-> <<>>, buf |-> <<>>, emitting |-> FALSE,
            suppressed |-> FALSE, said |-> <<>>, thoughts |-> <<>>,
            named |-> 0, writing |-> <<>>, files |-> <<>>]

-----------------------------------------------------------------------------
(* The gateways                                                            *)

StreamStart(on) ==
  /\ gateway \in IF on THEN {"modal", "anthropic"} ELSE {"modal"}
  /\ \E a \in IF on THEN Answer ELSE {[text |-> <<>>, calls |-> {}]} :
       text = a.text /\ wanted = a.calls
  /\ read = 0 /\ cuts = 0
  /\ buffer = <<>> /\ inside = FALSE /\ ordered = <<>>
  /\ h = Quietly
  /\ args = [i \in Call |-> <<>>] /\ order = <<>> /\ calls = <<>>
  /\ reply = IF on THEN "streaming" ELSE "idle"
  /\ stopReason = "none"
  /\ cutTag = FALSE /\ cutShort = FALSE

\* A tag is cut after its name: no prefix of a literal, so nothing holds it.
CutInTag(t) ==
  \E i \in DOMAIN t :
    /\ \A j \in i .. Len(t) : t[j] # ">"
    /\ HasAt(t, i, Opening) \/ HasAt(t, i, Closing)

\* A delta of content, through the router to the handler.
Content(n) ==
  LET s == Split(buffer \o SubSeq(text, read + 1, read + n), inside)
  IN  /\ reply = "streaming"
      /\ read + n = Len(text) \/ (read + n < Len(text) /\ cuts < MaxCuts)
      /\ read' = read + n /\ cuts' = cuts + 1
      /\ buffer' = s.buffer /\ inside' = s.inside
      /\ ordered' = ordered \o Tracked(s.pieces, "tags")
      /\ h' = processPieces(h, s.pieces)
      /\ cutTag' = (cutTag \/ CutInTag(Upto(text, read + n)))
      /\ UNCHANGED <<gateway, text, wanted, cutShort, tools, reply, stopReason>>

\* A delta of the provider's reasoning field.
Reasoning ==
  LET p == <<[kind |-> "reasoning", text |-> <<"w">>]>>
  IN  /\ reply = "streaming"
      /\ Cardinality({i \in DOMAIN ordered : ordered[i].source = "field"}) < MaxField
      /\ ordered' = ordered \o Tracked(p, "field")
      /\ h' = processPieces(h, p)
      /\ UNCHANGED <<wire, buffer, inside, tools, reply, stopReason>>

Open(i) == Len(args[i]) \in 1 .. ArgLen - 1

\* mutant of Buffered: a fragment is added to the call that came last.
Buffered_Last(i) ==
  IF order # <<>> /\ i \notin Range(order)
  THEN [args EXCEPT ![Last(order)] = Append(@, <<i, 1>>)]
  ELSE [args EXCEPT ![i] = Append(@, <<i, Len(@) + 1>>)]

\* toolBuffers: the next fragment of call i is added to what i has.
Buffered(i) == [args EXCEPT ![i] = Append(@, <<i, Len(@) + 1>>)]

\* A fragment of a call.  The calls of an OpenAI-compatible reply interleave;
\* the blocks of an Anthropic one follow each other, and each is yielded
\* when it stops.
Fragment(i) ==
  /\ reply = "streaming"
  /\ i \in wanted /\ Len(args[i]) < ArgLen
  /\ gateway = "anthropic" => \A j \in Call \ {i} : ~Open(j)
  /\ args' = Buffered(i)
  /\ order' = IF i \in Range(order) THEN order ELSE Append(order, i)
  /\ calls' = IF gateway = "anthropic" /\ Len(args[i]) = ArgLen - 1
              THEN Append(calls, <<i, args'[i]>>) ELSE calls
  /\ UNCHANGED <<wire, split, h, reply, stopReason>>

toAnthropicStopReason(finish) ==
  CASE finish = "tool_calls" -> "tool_use"
    [] finish = "length" -> "max_tokens"
    [] finish = "stop" -> "end_turn"
    [] OTHER -> finish

\* The calls of an OpenAI-compatible reply are yielded when its body ends.
Yielded ==
  IF gateway = "modal" THEN [n \in DOMAIN order |-> <<order[n], args[order[n]]>>]
  ELSE calls

\* The body ended: what is held goes out, the message and the file close.
EndOf(finish) ==
  LET rest == Rest(buffer, inside)
  IN  /\ buffer' = <<>>
      /\ ordered' = ordered \o Tracked(rest, "tags")
      /\ h' = CloseFile(flushProse(processPieces(h, rest)))
      /\ calls' = Yielded
      /\ stopReason' = IF gateway = "modal" /\ Yielded # <<>> THEN "tool_use"
                       ELSE toAnthropicStopReason(finish)
      /\ reply' = "ended"
      /\ UNCHANGED <<gateway, text, wanted, read, cuts, cutTag, inside, args, order>>

\* Some servers say "stop" of a reply with calls; a length limit cuts it.
Ended(finish) ==
  /\ reply = "streaming"
  /\ read = Len(text) /\ \A i \in wanted : Len(args[i]) = ArgLen
  /\ gateway = "anthropic" => (finish = "tool_calls" <=> calls # <<>>)
  /\ gateway = "modal" /\ finish = "tool_calls" => order # <<>>
  /\ EndOf(finish)
  /\ UNCHANGED cutShort

\* A body that ends early is read as the end of the reply.
EndedShort(finish) ==
  /\ reply = "streaming"
  /\ read < Len(text) \/ \E i \in wanted : Len(args[i]) < ArgLen
  /\ finish \in {"none", "length"}
  /\ EndOf(finish)
  /\ cutShort' = TRUE

\* The connection breaks: an error, and nothing that was held.
Broken ==
  /\ reply = "streaming"
  /\ reply' = "failed"
  /\ UNCHANGED <<wire, split, h, tools, stopReason>>

\* A server that does not stream: the reply at once, its reasoning last.
Whole ==
  LET s == Split(text, FALSE)
      thought == <<[kind |-> "reasoning", text |-> <<"w">>]>>
      rest == Rest(s.buffer, s.inside)
      heard == processPieces(processPieces(Quietly, s.pieces), thought)
  IN  /\ gateway = "modal" /\ reply = "streaming"
      /\ read = 0 /\ ordered = <<>> /\ text # <<>> /\ wanted = {}
      /\ read' = Len(text)
      /\ buffer' = <<>> /\ inside' = s.inside
      /\ ordered' = Tracked(s.pieces, "tags") \o Tracked(thought, "field")
                      \o Tracked(rest, "tags")
      /\ h' = CloseFile(flushProse(processPieces(heard, rest)))
      /\ reply' = "ended" /\ stopReason' = "end_turn"
      /\ UNCHANGED <<gateway, text, wanted, cuts, cutTag, cutShort, tools>>

\* The work of a reply is over once it is ended or failed.
StreamNext ==
  \/ \E n \in 1 .. Len(text) : Content(n)
  \/ Reasoning \/ Broken \/ Whole
  \/ \E i \in Call : Fragment(i)
  \/ \E finish \in {"stop", "length", "tool_calls"} : Ended(finish)
  \/ \E finish \in {"none", "length"} : EndedShort(finish)

-----------------------------------------------------------------------------
(* Properties                                                              *)

StreamTypeOK ==
  /\ read \in 0 .. Len(text) /\ cuts \in 0 .. MaxCuts + 1
  /\ wanted \subseteq Call /\ Range(order) \subseteq wanted
  /\ inside \in BOOLEAN /\ h.emitting \in BOOLEAN /\ h.suppressed \in BOOLEAN
  /\ reply \in {"idle", "streaming", "ended", "failed"}

Received == Upto(text, read)

\* However the provider cuts a reply, thinking and answer are told apart as
\* if it had come at once, unless a cut fell in a tag after its name
\* (reasoning-tag-splitter.ts 13-16 promises it for every cut).
SplitAsWhole ==
  reply = "ended" /\ ~cutTag =>
    /\ h.content = TextOf("content", AtOnce(Received))
    /\ FromTags(ordered) = TextOf("reasoning", AtOnce(Received))

\* A think pair without a thought, not at the start of the reply.
HasEmptyThought(t) ==
  \E tag \in OpenTags(t) : tag[1] > 1 /\ HasAt(t, tag[2] + 1, Append(Closing, ">"))

\* The turn the next round replays reads as the turn the model wrote: the
\* same answer and the same thinking (reasoning-router.ts 104-111).  An empty
\* thought leaves no piece, and the answer around it may then read as a tag.
HistoryReplays ==
  reply = "ended" /\ ~cutTag /\ ~HasEmptyThought(Received) =>
    LET again == AtOnce(historyText(ordered))
    IN  /\ TextOf("content", again) = TextOf("content", AtOnce(Received))
        /\ TextOf("reasoning", again) = TextOf("reasoning", AtOnce(Received))

\* Whether the characters of s are in t, in their order: each is looked for
\* after the place of the one before it.
InOrder(s, t) ==
  LET place[n \in 0 .. Len(s)] ==
        IF n = 0 THEN 0
        ELSE LET before == place[n - 1]
                 later  == {i \in DOMAIN t : before < i /\ t[i] = s[n]}
             IN  IF later = {} THEN Len(t) + 1 ELSE Least(later)
  IN  place[Len(s)] <= Len(t)

\* The chat hears the prose in order and none of it twice, and no message
\* looks like a structured plan, but for the characters held back at the end
\* (stream-handler.ts 136-143; flushProse() says those unseen).
SpokenOnce ==
  /\ InOrder(FlattenSeq(h.said), h.content)
  /\ \A n \in DOMAIN h.said : looksStructured(h.said[n]) =>
       reply = "ended" /\ n >= Len(h.said) - 1 /\ Len(h.said[n]) = 3

\* A file that is announced as being written is announced as done, before
\* the next one and at the end (stream-handler.ts 186-194, 422-424).
FilesClosed ==
  /\ \A i \in DOMAIN h.files :
       h.files[i].event =
         IF i % 2 = 1 THEN "writing" ELSE "done"
  /\ reply = "ended" => Len(h.files) % 2 = 0

\* Each call has the whole of its own arguments however the fragments
\* interleave, and the loop is told to run the calls there are
\* (modal-gateway.ts 524-548, 571-582; dispatcher.ts tests "tool_use").
CallsWhole ==
  reply = "ended" /\ ~cutShort =>
    /\ \A n \in DOMAIN calls :
         calls[n][2] = [k \in 1 .. ArgLen |-> <<calls[n][1], k>>]
    /\ {calls[n][1] : n \in DOMAIN calls} = Range(order)
    /\ stopReason = "tool_use" <=> calls # <<>>

\* What the provider sent is what everyone downstream has: the chat, the next
\* round's history, the file events and the tool loop, however it was cut up
\* (reasoning-tag-splitter.ts, reasoning-router.ts, stream-handler.ts and the
\* gateways between them).
ReplyComesThrough ==
  SplitAsWhole /\ HistoryReplays /\ SpokenOnce /\ FilesClosed /\ CallsWhole
=============================================================================
