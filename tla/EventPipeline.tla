---------------------------- MODULE EventPipeline ----------------------------
(***************************************************************************)
(* EventPipeline::consume, called by several threads at once: the          *)
(* transport's, and in the CLI modes the thread that reads stdin and the   *)
(* socket server's send handler.  A session takes a sequence number when   *)
(* it makes an event, consume passes the event to the sink, decodes it     *)
(* under mutex_ if it carries bytes, and passes on what was derived after  *)
(* mutex_ is released.                                                     *)
(*                                                                         *)
(* The sink is the log: one entry per call, in the order of the calls.     *)
(* input and cuts are history variables: the bytes a stream's decoder has  *)
(* been given, each with the number of the event it came in, and where in  *)
(* them the decoder has ended a frame.                                     *)
(***************************************************************************)
EXTENDS FrameDecoders, FiniteSets

CONSTANTS
    Callers,     \* threads that call consume
    Streams,     \* session, transport, direction and endpoints: stream_key
    Workloads    \* of which a run has one: feeds, which caller produces events of which
                 \* stream; decoders, the settings to choose from; chunks, the payloads a
                 \* transport delivers; events, the bound on the events made

Free == "free"

ASSUME CallerAssumption == Free \notin Callers
ASSUME WorkloadAssumption ==
    \A w \in Workloads :
        /\ w.feeds \subseteq Callers \X Streams
        /\ \A d \in w.decoders : Accepted(d)
        /\ \A c \in w.chunks : c \in Seq(0..255) /\ c # <<>>
        /\ w.events \in Nat

VARIABLES
    work,        \* the workload
    decoder,     \* the settings the factory was made with
    counter,     \* SequenceAllocator::counter_
    made,        \* events the sessions have made
    pc,          \* where each caller is in consume
    event,       \* the event it was called with
    mutex,       \* owner of EventPipeline::mutex_
    buffer,      \* the decoder's buffer of each stream
    contributors,\* stream_raw_sequences_
    result,      \* frames a caller's call of the decoder has cut
    derived,     \* derived events a caller has yet to pass to the sink
    log,         \* what the sink has been given
    input, cuts  \* history, see above

session == <<work, decoder, made, event>>
decoding == <<buffer, contributors, result, input, cuts>>
vars == <<session, counter, pc, mutex, decoding, derived, log>>

NoEvent == [type |-> "none"]

RawEvent(seq, s, payload) == [type |-> "raw_bytes", seq |-> seq, stream |-> s, payload |-> payload]

StateChange(seq, s) == [type |-> "state_change", seq |-> seq, stream |-> s]

\* first and last say which of the stream's bytes the frame was cut from.
FrameEvent(seq, raw, parents, f) ==
    [type |-> "frame", seq |-> seq, stream |-> raw.stream, parent |-> raw.seq,
     parents |-> parents, payload |-> f.payload, first |-> f.first, last |-> f.last]

DecoderError(seq, raw, parents) ==
    [type |-> "error", seq |-> seq, stream |-> raw.stream, parent |-> raw.seq,
     parents |-> parents]

Init ==
    /\ work \in Workloads
    /\ decoder \in work.decoders
    /\ counter = 1
    /\ made = 0
    /\ pc = [t \in Callers |-> "idle"]
    /\ event = [t \in Callers |-> NoEvent]
    /\ mutex = Free
    /\ buffer = [s \in Streams |-> <<>>]
    /\ contributors = [s \in Streams |-> <<>>]
    /\ result = [t \in Callers |-> <<>>]
    /\ derived = [t \in Callers |-> <<>>]
    /\ log = <<>>
    /\ input = [s \in Streams |-> <<>>]
    /\ cuts = [s \in Streams |-> <<>>]

Goto(t, point) == pc' = [pc EXCEPT ![t] = point]

Taken(s) == Len(input[s]) - Len(buffer[s])

\* The session's make_event, just before it calls consume.
MakeEvent(t, s) ==
    /\ pc[t] = "idle" /\ made < work.events /\ <<t, s>> \in work.feeds
    /\ \/ \E c \in work.chunks : event' = [event EXCEPT ![t] = RawEvent(counter, s, c)]
       \/ event' = [event EXCEPT ![t] = StateChange(counter, s)]
    /\ made' = made + 1
    /\ counter' = counter + 1
    /\ Goto(t, "sink")
    /\ UNCHANGED <<work, decoder, mutex, decoding, derived, log>>

\* The event itself goes to the sink; only raw bytes are decoded.
SinkEvent(t) ==
    /\ pc[t] = "sink"
    /\ log' = Append(log, event[t])
    /\ Goto(t, IF event[t].type = "raw_bytes" THEN "lock" ELSE "idle")
    /\ UNCHANGED <<session, counter, mutex, decoding, derived>>

\* mutex_ is taken, the event's sequence is remembered and the payload is
\* appended to the buffer (the raw decoder keeps none, which comes to the same).
FeedDecoder(t) ==
    LET s == event[t].stream IN
    /\ pc[t] = "lock" /\ mutex = Free
    /\ mutex' = t
    /\ contributors' = [contributors EXCEPT ![s] = Append(@, event[t].seq)]
    /\ buffer' = [buffer EXCEPT ![s] = @ \o event[t].payload]
    /\ input' = [input EXCEPT ![s] =
                    @ \o [i \in DOMAIN event[t].payload |->
                            [byte |-> event[t].payload[i], seq |-> event[t].seq]]]
    /\ Goto(t, "decode")
    /\ UNCHANGED <<session, counter, result, cuts, derived, log>>

\* One round of the decoder's loop.
ExtractFrame(t) ==
    LET s == event[t].stream
        span == FrameSpan(decoder, buffer[s])
    IN
    /\ pc[t] = "decode"
    /\ ~LengthRejected(decoder, buffer[s])
    /\ span > 0
    /\ result' = [result EXCEPT ![t] =
          Append(@, [payload |-> FramePayload(decoder, buffer[s], span),
                     first |-> Taken(s) + 1, last |-> Taken(s) + span])]
    /\ buffer' = [buffer EXCEPT ![s] = Drop(@, span)]
    /\ cuts' = [cuts EXCEPT ![s] = Append(@, Taken(s) + span)]
    /\ UNCHANGED <<session, counter, pc, mutex, contributors, input, derived, log>>

\* Mutant: mutex_ is released before the frames are numbered.
DecoderReturned_Unlocks(t) ==
    LET s == event[t].stream IN
    /\ pc[t] = "decode"
    /\ ~LengthRejected(decoder, buffer[s])
    /\ FrameSpan(decoder, buffer[s]) = 0
    /\ mutex' = Free
    /\ Goto(t, "frames")
    /\ UNCHANGED <<session, counter, decoding, derived, log>>

\* The decoder returns: nothing more is complete.
DecoderReturned(t) ==
    LET s == event[t].stream IN
    /\ pc[t] = "decode"
    /\ ~LengthRejected(decoder, buffer[s])
    /\ FrameSpan(decoder, buffer[s]) = 0
    /\ Goto(t, "frames")
    /\ UNCHANGED <<session, counter, mutex, decoding, derived, log>>

\* Mutant: the error names only the event that was being decoded.
DecoderThrew_OneParent(t) ==
    LET s == event[t].stream IN
    /\ pc[t] = "decode"
    /\ LengthRejected(decoder, buffer[s])
    /\ derived' = [derived EXCEPT ![t] =
                      <<DecoderError(counter, event[t], <<event[t].seq>>)>>]
    /\ counter' = counter + 1
    /\ contributors' = [contributors EXCEPT ![s] = <<>>]
    /\ result' = [result EXCEPT ![t] = <<>>]
    /\ mutex' = Free
    /\ Goto(t, "derived")
    /\ UNCHANGED <<session, buffer, input, cuts, log>>

\* The decoder throws: the frames it had cut in this call are lost, the
\* refused header stays at the front of the buffer.
DecoderThrew(t) ==
    LET s == event[t].stream IN
    /\ pc[t] = "decode"
    /\ LengthRejected(decoder, buffer[s])
    /\ derived' = [derived EXCEPT ![t] =
                      <<DecoderError(counter, event[t], contributors[s])>>]
    /\ counter' = counter + 1
    /\ contributors' = [contributors EXCEPT ![s] = <<>>]
    /\ result' = [result EXCEPT ![t] = <<>>]
    /\ mutex' = Free
    /\ Goto(t, "derived")
    /\ UNCHANGED <<session, buffer, input, cuts, log>>

MakeFrameEvent(t) ==
    LET s == event[t].stream IN
    /\ pc[t] = "frames" /\ result[t] # <<>>
    /\ derived' = [derived EXCEPT ![t] =
                      Append(@, FrameEvent(counter, event[t], contributors[s], Head(result[t])))]
    /\ counter' = counter + 1
    /\ result' = [result EXCEPT ![t] = Tail(@)]
    /\ UNCHANGED <<session, pc, mutex, buffer, contributors, input, cuts, log>>

\* Mutant: the history is cleared although part of a frame is still buffered.
LeaveDecoder_ClearsAlways(t) ==
    LET s == event[t].stream IN
    /\ pc[t] = "frames" /\ result[t] = <<>>
    /\ contributors' = [contributors EXCEPT ![s] = <<>>]
    /\ mutex' = Free
    /\ Goto(t, "derived")
    /\ UNCHANGED <<session, counter, buffer, result, input, cuts, derived, log>>

\* The history is cleared when the stream's bytes have all gone into frames.
LeaveDecoder(t) ==
    LET s == event[t].stream IN
    /\ pc[t] = "frames" /\ result[t] = <<>>
    /\ contributors' = [contributors EXCEPT ![s] = IF buffer[s] = <<>> THEN <<>> ELSE @]
    /\ mutex' = Free
    /\ Goto(t, "derived")
    /\ UNCHANGED <<session, counter, buffer, result, input, cuts, derived, log>>

SinkDerived(t) ==
    /\ pc[t] = "derived"
    /\ IF derived[t] = <<>>
       THEN Goto(t, "idle") /\ UNCHANGED <<derived, log>>
       ELSE /\ log' = Append(log, Head(derived[t]))
            /\ derived' = [derived EXCEPT ![t] = Tail(@)]
            /\ UNCHANGED pc
    /\ UNCHANGED <<session, counter, mutex, decoding>>

Consume(t) ==
    SinkEvent(t) \/ FeedDecoder(t) \/ ExtractFrame(t) \/ DecoderReturned(t) \/ DecoderThrew(t)
    \/ MakeFrameEvent(t) \/ LeaveDecoder(t) \/ SinkDerived(t)

Next == \E t \in Callers : Consume(t) \/ \E s \in Streams : MakeEvent(t, s)

Spec == Init /\ [][Next]_vars
=============================================================================
