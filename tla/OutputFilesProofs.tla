--------------------------- MODULE OutputFilesProofs ---------------------------
(***************************************************************************)
(* Invariants of the programs of OutputFiles, as VgfDumpTool runs them:    *)
(* for every list of puts, every size of the stream's buffer, every        *)
(* command on every file, and any number of calls.                         *)
(***************************************************************************)
EXTENDS VgfDumpTool, ByteRangesProofs, SequenceTheorems, FiniteSetTheorems

Blocks == {i \in DOMAIN puts : puts[i].block}

\* A block of this call that an earlier one released is still to come.
LostAhead == \E i \in released : i \in Blocks /\ i >= next

Out == IF disk = Old THEN 0 ELSE disk

Starting == stage \in {"compute", "open"}
Writing == stage \in {"put", "close"}

ProgramInv ==
  /\ program \in Encoders \cup Tools
  /\ program \notin {"capi", "python"} => fresh
  /\ program \in Encoders => mapped = FALSE /\ inputGone = FALSE
  /\ stage # "done" => answer # "true"

EncoderTypeOK ==
  /\ puts \in EncoderPuts
  /\ next \in 1 .. Len(puts) + 1
  /\ asked \in Nat
  /\ disk \in Int /\ disk >= Old
  /\ stream \in [good : BOOLEAN, held : Nat]
  /\ released \subseteq {0} \cup Blocks
  /\ fresh \in BOOLEAN

\* No byte gets out that was not put, and a released block leaves a gap
\* once it is passed.
BytesInv ==
  /\ Starting => next = 1 /\ asked = 0 /\ disk = Old /\ stream = [good |-> TRUE, held |-> 0]
  /\ Starting /\ ~fresh => LostAhead
  /\ stage = "open" => program # "python"
  /\ Writing => (disk = Old <=> program = "python")
  /\ Writing => Out + stream.held <= asked
  /\ Writing /\ ~fresh => LostAhead \/ Out + stream.held < asked
  /\ stage = "close" => next = Len(puts) + 1
  /\ Writing /\ program = "updater" => stream.good /\ disk + stream.held = asked
  /\ program = "updater" /\ stage # "done" => \A i \in released : i < next

OutputInv ==
  /\ ProgramInv
  /\ program \in Encoders => EncoderTypeOK /\ BytesInv
  /\ UpdaterSuccessIsWhole
  /\ RetryNeverWhole

--------------------------------------------------------------------------------
LEMMA InitInv == ToolInit => OutputInv
<1> SUFFICES ASSUME ToolInit PROVE OutputInv
  OBVIOUS
<1>1. PICK p \in Encoders \cup Tools : OutputInit(p) /\ (p \in Encoders => mapped = FALSE)
  BY RunsAssumption DEF ToolInit, Encoders, Tools
<1>2. ProgramInv
  BY <1>1 DEF OutputInit, ProgramInv
<1>3. ASSUME program \in Encoders PROVE EncoderTypeOK
  <2>1. puts \in EncoderPuts /\ puts \in Seq([size : Nat, checked : BOOLEAN, block : BOOLEAN])
    BY <1>1, <1>3, OutputAssumption DEF OutputInit
  <2>2. QED
    BY <1>1, <2>1 DEF OutputInit, EncoderTypeOK, Old
<1>4. BytesInv
  BY <1>1 DEF OutputInit, BytesInv, Starting, Writing, Encoders, Tools
<1>5. UpdaterSuccessIsWhole /\ RetryNeverWhole
  BY <1>1 DEF OutputInit, UpdaterSuccessIsWhole, RetryNeverWhole
<1>6. QED
  BY <1>2, <1>3, <1>4, <1>5 DEF OutputInv

\* The steps of vgf_dump concern none of the encoder's clients.
LEMMA ToolStep ==
  ASSUME OutputInv, program \in Tools, [ToolNext]_toolVars
  PROVE  OutputInv'
<1>1. program' = program /\ fresh' = fresh
  BY DEF ToolNext, Compute, Act, WriteStep, ComputeOutput, ComputeFails, ComputeModel, OpenFails,
         Open, Refuse, Put, PutFaults, EndPuts, Close, WriteBytes, CallAgain, toolVars, outputVars,
         Encoders, Tools
<1>2. program \notin Encoders /\ program # "updater" /\ program # "capi" /\ program # "python"
  BY DEF Encoders, Tools
<1>3. fresh
  BY <1>2 DEF OutputInv, ProgramInv
<1>4. (stage # "done" => answer # "true")'
  BY <1>2 DEF OutputInv, ProgramInv, ToolNext, Compute, Act, WriteStep, ComputeOutput, ComputeFails,
         ComputeModel, OpenFails, Open, Refuse, Put, PutFaults, EndPuts, Close, WriteBytes, CallAgain,
         toolVars, outputVars, Answer
<1>5. QED
  BY <1>1, <1>2, <1>3, <1>4 DEF OutputInv, ProgramInv, UpdaterSuccessIsWhole, RetryNeverWhole, Encoders

\* The facts every step of an encoder's client starts from.
LEMMA Typed ==
  ASSUME OutputInv, program \in Encoders
  PROVE  /\ program \in {"capi", "python", "updater"}
         /\ EncoderTypeOK /\ BytesInv
         /\ Len(puts) \in Nat /\ DOMAIN puts = 1 .. Len(puts)
         /\ \A i \in DOMAIN puts : puts[i].size \in Nat /\ (puts[i].block => puts[i].size > 0)
         /\ stream.good \in BOOLEAN /\ stream.held \in Nat
         /\ inputGone = FALSE
<1>1. puts \in EncoderPuts /\ puts \in Seq([size : Nat, checked : BOOLEAN, block : BOOLEAN])
  BY OutputAssumption DEF OutputInv, EncoderTypeOK
<1>2. DOMAIN puts = 1 .. Len(puts) /\ Len(puts) \in Nat
  BY <1>1
<1>3. \A i \in 1 .. Len(puts) : puts[i] \in [size : Nat, checked : BOOLEAN, block : BOOLEAN]
  BY <1>1, ElementOfSeq
<1>4. QED
  BY <1>1, <1>2, <1>3, OutputAssumption DEF OutputInv, EncoderTypeOK, ProgramInv, Encoders

\* What a stream makes of a put: it takes no more than it is given, all of
\* it while it is good, and nothing from Python before the end.
LEMMA TakenLemma ==
  ASSUME stream \in [good : BOOLEAN, held : Nat], disk \in Int,
         NEW size \in Nat, NEW taken \in Taken(size)
  PROVE  /\ taken.stream \in [good : BOOLEAN, held : Nat]
         /\ taken.disk \in Int /\ taken.disk >= disk
         /\ taken.disk + taken.stream.held <= disk + stream.held + size
         /\ taken.stream.good =>
              stream.good /\ taken.disk + taken.stream.held = disk + stream.held + size
         /\ ~stream.good => taken.disk + taken.stream.held = disk + stream.held
         /\ program = "python" => taken.disk = disk
         /\ program # "python" /\ stream.held <= BufferSize => taken.stream.held <= BufferSize
<1>1. /\ stream.held \in Nat /\ stream.good \in BOOLEAN /\ disk \in Int
      /\ stream \in [good : BOOLEAN, held : Nat] /\ BufferSize \in Nat
  BY OutputAssumption
<1>2. CASE ~stream.good
  BY <1>1, <1>2 DEF Taken
<1>3. CASE stream.good /\ Fits(size)
  <2>1. taken = [stream |-> [stream EXCEPT !.held = stream.held + size], disk |-> disk]
    BY <1>3 DEF Taken
  <2>2. taken.stream.good = stream.good /\ taken.stream.held = stream.held + size /\ taken.disk = disk
    BY <1>1, <2>1
  <2>3. QED
    BY <1>1, <1>3, <2>1, <2>2 DEF Fits
<1>4. CASE stream.good /\ ~Fits(size)
  <2>1. program # "python" /\ stream.held + size > BufferSize /\ BufferSize \in Nat
    BY <1>1, <1>4, OutputAssumption DEF Fits
  <2>2. \/ \E rest \in 0 .. BufferSize :
             taken = [stream |-> [good |-> TRUE, held |-> rest],
                      disk |-> disk + (stream.held + size) - rest]
        \/ \E part \in 0 .. (stream.held + size) - 1 :
             taken = [stream |-> [good |-> FALSE, held |-> 0], disk |-> disk + part]
    BY <1>4 DEF Taken, Broken
  <2>3. CASE \E rest \in 0 .. BufferSize :
                taken = [stream |-> [good |-> TRUE, held |-> rest],
                         disk |-> disk + (stream.held + size) - rest]
    <3>1. PICK rest \in 0 .. BufferSize :
                taken = [stream |-> [good |-> TRUE, held |-> rest],
                         disk |-> disk + (stream.held + size) - rest]
      BY <2>3
    <3>2. /\ taken.stream = [good |-> TRUE, held |-> rest]
          /\ taken.stream.held = rest
          /\ taken.disk = disk + (stream.held + size) - rest
      BY <3>1
    <3>3. QED
      BY <1>1, <1>4, <2>1, <3>2
  <2>4. CASE \E part \in 0 .. (stream.held + size) - 1 :
                taken = [stream |-> [good |-> FALSE, held |-> 0], disk |-> disk + part]
    <3>1. PICK part \in 0 .. (stream.held + size) - 1 :
                taken = [stream |-> [good |-> FALSE, held |-> 0], disk |-> disk + part]
      BY <2>4
    <3>2. /\ taken.stream = [good |-> FALSE, held |-> 0] /\ taken.disk = disk + part
          /\ taken.stream.good = FALSE /\ taken.stream.held = 0
      BY <3>1
    <3>3. QED
      BY <1>1, <1>4, <2>1, <3>2
  <2>5. QED
    BY <2>2, <2>3, <2>4
<1>5. QED
  BY <1>2, <1>3, <1>4, <1>1

--------------------------------------------------------------------------------
\* What a step of an encoder's client leaves alone.
Same == program' = program /\ puts' = puts /\ mapped' = mapped

\* A step that answers other than success, and writes nothing.
LEMMA GivesUp ==
  ASSUME OutputInv, program \in Encoders, Same, inputGone' = inputGone,
         stage' = "done", answer' # "true",
         UNCHANGED <<next, asked, stream, released, fresh, disk>>
  PROVE  OutputInv'
<1>1. ProgramInv'
  BY DEF OutputInv, ProgramInv, Same
<1>2. EncoderTypeOK'
  BY Typed DEF EncoderTypeOK, Same, Blocks
<1>3. BytesInv'
  BY DEF BytesInv, Starting, Writing
<1>4. QED
  BY <1>1, <1>2, <1>3 DEF OutputInv, UpdaterSuccessIsWhole, RetryNeverWhole

LEMMA StartStep ==
  ASSUME OutputInv, program \in Encoders, ComputeModel \/ Open
  PROVE  OutputInv'
<1> USE Typed
<1>1. Same /\ inputGone' = FALSE /\ answer' # "true" /\ Starting /\ stage' # "done"
  BY DEF ComputeModel, Open, Same, OutputInv, ProgramInv, Starting
<1>2. UNCHANGED <<next, asked, stream, released, fresh, answer>>
  BY DEF ComputeModel, Open
<1>3. /\ next = 1 /\ asked = 0 /\ disk = Old /\ stream.held = 0 /\ stream.good
      /\ ~fresh => LostAhead
      /\ stage = "open" => program # "python"
  BY <1>1 DEF BytesInv
<1>4. /\ stage' \in {"open", "put"} /\ (stage' = "open" => disk' = disk /\ program # "python")
      /\ stage' = "put" => disk' = IF program = "python" THEN disk ELSE 0
  BY <1>3 DEF ComputeModel, Open
<1>5. ProgramInv'
  BY <1>1, <1>2 DEF OutputInv, ProgramInv, Same
<1>6. EncoderTypeOK'
  BY <1>1, <1>2, <1>3, <1>4 DEF EncoderTypeOK, Same, Blocks, Old
<1>7. LostAhead' <=> LostAhead
  BY <1>1, <1>2 DEF LostAhead, Blocks, Same
<1>8. BytesInv'
  BY <1>1, <1>2, <1>3, <1>4, <1>7 DEF BytesInv, Starting, Writing, Out, Old, Same
<1>9. QED
  BY <1>1, <1>5, <1>6, <1>8 DEF OutputInv, UpdaterSuccessIsWhole, RetryNeverWhole

LEMMA PutStep ==
  ASSUME OutputInv, program \in Encoders, Put
  PROVE  OutputInv'
<1> DEFINE size == PutSize(next)
<1>1. /\ Same /\ inputGone' = FALSE /\ fresh' = fresh /\ next' = next + 1
      /\ asked' = asked + puts[next].size /\ stage = "put" /\ next \in DOMAIN puts
  BY Typed DEF Put, Same, EncoderTypeOK
<1>2. size \in Nat /\ size <= puts[next].size
      /\ (next \in released => size = 0)
  BY <1>1, Typed DEF PutSize
<1>3. PICK taken \in Taken(size) :
        /\ stream' = taken.stream
        /\ disk' = taken.disk
        /\ IF ~taken.stream.good /\ (Throwing \/ Checked(next))
           THEN Answer(Failure)
           ELSE UNCHANGED <<stage, answer>>
        /\ released' = IF puts[next].block /\ (taken.stream.good \/ ~Throwing)
                       THEN released \cup {next} ELSE released
  BY Typed DEF Put, PutTaken, Gone
<1> HIDE DEF size
<1>4. /\ stream' \in [good : BOOLEAN, held : Nat]
      /\ disk' \in Int /\ disk' >= disk
      /\ disk' + stream'.held <= disk + stream.held + size
      /\ stream'.good => disk' + stream'.held = disk + stream.held + size
      /\ program = "python" => disk' = disk
  <2>1. /\ taken.stream \in [good : BOOLEAN, held : Nat]
        /\ taken.disk \in Int /\ taken.disk >= disk
        /\ taken.disk + taken.stream.held <= disk + stream.held + size
        /\ taken.stream.good => taken.disk + taken.stream.held = disk + stream.held + size
        /\ program = "python" => taken.disk = disk
    BY <1>2, TakenLemma, Typed DEF EncoderTypeOK
  <2>2. QED
    BY <1>3, <2>1
<1>5. answer' # "true" /\ (stage' = "put" \/ stage' = "done")
  BY <1>1, <1>3 DEF OutputInv, ProgramInv, Answer, Failure
<1>6. ProgramInv'
  BY <1>1, <1>5 DEF OutputInv, ProgramInv, Same
<1>7. /\ asked \in Nat /\ disk \in Int /\ disk >= Old /\ stream.held \in Nat /\ stream'.held \in Nat
      /\ next \in Nat /\ puts[next].size \in Nat /\ Old = -1
      /\ disk = Old <=> program = "python"
  BY <1>1, <1>4, Typed DEF EncoderTypeOK, BytesInv, Writing, Old
<1>8. EncoderTypeOK'
  <2>1. released' \subseteq {0} \cup Blocks'
    BY <1>1, <1>3, Typed DEF EncoderTypeOK, Same, Blocks
  <2>2. next' \in 1 .. Len(puts') + 1 /\ puts' \in EncoderPuts /\ fresh' \in BOOLEAN
    BY <1>1, Typed DEF EncoderTypeOK, Same
  <2>3. QED
    BY <1>1, <1>4, <1>7, <2>1, <2>2 DEF EncoderTypeOK
<1>9. (disk' = Old <=> program = "python") /\ Out' + stream'.held <= Out + stream.held + size
  BY <1>2, <1>4, <1>7 DEF Out
<1>10. Out \in Int /\ Out' \in Int /\ Out + stream.held <= asked
  BY <1>1, <1>4, <1>7, Typed DEF BytesInv, Writing, Out
<1>11. Out' + stream'.held <= asked'
  BY <1>1, <1>2, <1>7, <1>9, <1>10
<1>12. ASSUME ~fresh PROVE LostAhead' \/ Out' + stream'.held < asked'
  <2>1. CASE Out + stream.held < asked
    BY <1>1, <1>2, <1>7, <1>9, <1>10, <2>1
  <2>2. CASE LostAhead
    <3>1. PICK i \in released : i \in Blocks /\ i >= next
      BY <2>2 DEF LostAhead
    <3>2. CASE i = next
      <4>1. size = 0 /\ puts[next].size > 0
        BY <1>1, <1>2, <3>1, <3>2, Typed DEF Blocks
      <4>2. QED
        BY <1>1, <1>7, <1>9, <1>10, <4>1
    <3>3. CASE i # next
      <4>1. i \in released' /\ i \in Blocks'
        BY <1>1, <1>3, <3>1 DEF Blocks, Same
      <4>2. i \in Nat
        BY <3>1, Typed DEF Blocks
      <4>3. i >= next'
        BY <1>1, <1>7, <3>1, <3>3, <4>2
      <4>4. QED
        BY <4>1, <4>3 DEF LostAhead
    <3>4. QED
      BY <3>2, <3>3
  <2>3. QED
    BY <1>12, <1>1, <2>1, <2>2, Typed DEF BytesInv, Writing
<1>13. ASSUME program = "updater"
       PROVE  /\ stage' = "put" => stream'.good /\ disk' + stream'.held = asked'
              /\ \A i \in released' : i < next'
  <2>1. /\ stream.good /\ disk + stream.held = asked
        /\ \A i \in released : i < next
    BY <1>1, <1>13, Typed DEF BytesInv, Writing
  <2>2. size = puts[next].size
    BY <1>7, <2>1 DEF size, PutSize
  <2>3. stage' = "put" => stream'.good
    BY <1>3, <1>13 DEF Throwing, Answer
  <2>4. \A i \in released' : i < next'
    <3>1. \A i \in released : i \in Nat
      BY Typed DEF EncoderTypeOK, Blocks
    <3>2. TAKE i \in released'
    <3>3. CASE i = next
      BY <1>1, <1>7, <3>3
    <3>4. CASE i \in released
      BY <1>1, <1>7, <2>1, <3>1, <3>4
    <3>5. QED
      BY <1>3, <3>3, <3>4
  <2>5. QED
    BY <1>1, <1>4, <1>7, <2>1, <2>2, <2>3, <2>4
<1>14. BytesInv'
  BY <1>1, <1>5, <1>9, <1>11, <1>12, <1>13 DEF BytesInv, Starting, Writing, Same
<1>15. QED
  BY <1>1, <1>5, <1>6, <1>8, <1>14 DEF OutputInv, UpdaterSuccessIsWhole, RetryNeverWhole

LEMMA EndPutsStep ==
  ASSUME OutputInv, program \in Encoders, EndPuts
  PROVE  OutputInv'
<1>1. /\ Same /\ stage = "put" /\ stage' = "close" /\ released' = released \cup {0}
      /\ UNCHANGED <<next, asked, stream, fresh, inputGone, disk, answer>>
  BY DEF EndPuts, Same
<1>2. next = Len(puts) + 1
  BY Typed DEF EndPuts, EncoderTypeOK
<1>3. ProgramInv'
  BY <1>1 DEF OutputInv, ProgramInv, Same
<1>4. EncoderTypeOK'
  BY <1>1, Typed DEF EncoderTypeOK, Same, Blocks
<1>5. LostAhead => LostAhead'
  BY <1>1 DEF LostAhead, Blocks, Same
<1>6. 0 < next
  BY Typed DEF EncoderTypeOK
<1>7. BytesInv'
  BY <1>1, <1>2, <1>5, <1>6, Typed DEF BytesInv, Starting, Writing, Out, Same
<1>8. QED
  BY <1>1, <1>3, <1>4, <1>7, Typed DEF OutputInv, ProgramInv, UpdaterSuccessIsWhole, RetryNeverWhole

\* A call that comes to its end has put everything.
LEMMA AtTheClose ==
  ASSUME OutputInv, program \in Encoders, stage = "close"
  PROVE  /\ disk \in Int /\ disk >= Old /\ stream.held \in Nat /\ asked \in Nat /\ Old = -1
         /\ ~LostAhead
         /\ ~fresh => Out + stream.held < asked
         /\ disk = Old <=> program = "python"
         /\ program = "updater" => disk + stream.held = asked
<1>1. next = Len(puts) + 1
  BY Typed DEF BytesInv
<1>2. ~LostAhead
  BY <1>1, Typed DEF LostAhead, Blocks
<1>3. QED
  BY <1>2, Typed DEF BytesInv, Writing, EncoderTypeOK, Old

LEMMA CloseStep ==
  ASSUME OutputInv, program \in Encoders, Close
  PROVE  OutputInv'
<1>1. /\ Same /\ stage = "close" /\ program # "python" /\ stage' = "done"
      /\ stream' = [stream EXCEPT !.held = 0]
      /\ UNCHANGED <<next, asked, released, fresh, inputGone>>
  BY DEF Close, Same, Answer
<1>2. /\ disk' \in disk .. disk + stream.held
      /\ \/ disk' = disk + stream.held
         \/ disk' \in disk .. disk + stream.held - 1 /\ (program = "updater" => answer' # "true")
  BY <1>1, AtTheClose DEF Close, CloseSeen, Answer
<1>3. ProgramInv'
  BY <1>1 DEF OutputInv, ProgramInv, Same
<1>4. EncoderTypeOK'
  BY <1>1, <1>2, AtTheClose, Typed DEF EncoderTypeOK, Same, Blocks
<1>5. BytesInv'
  BY <1>1 DEF BytesInv, Starting, Writing
<1>6. UpdaterSuccessIsWhole'
  BY <1>1, <1>2, AtTheClose DEF UpdaterSuccessIsWhole, Whole, Same
<1>7. RetryNeverWhole'
  BY <1>1, <1>2, AtTheClose DEF RetryNeverWhole, Whole, Same, Out
<1>8. QED
  BY <1>3, <1>4, <1>5, <1>6, <1>7 DEF OutputInv

LEMMA WriteBytesStep ==
  ASSUME OutputInv, program \in Encoders, WriteBytes
  PROVE  OutputInv'
<1>1. /\ Same /\ stage = "close" /\ program = "python" /\ stage' = "done"
      /\ stream' = [stream EXCEPT !.held = 0] /\ disk' \in 0 .. stream.held
      /\ UNCHANGED <<next, asked, released, fresh, inputGone>>
  BY DEF WriteBytes, Same, Answer
<1>2. ProgramInv'
  BY <1>1 DEF OutputInv, ProgramInv, Same
<1>3. EncoderTypeOK'
  BY <1>1, AtTheClose, Typed DEF EncoderTypeOK, Same, Blocks
<1>4. BytesInv'
  BY <1>1 DEF BytesInv, Starting, Writing
<1>5. UpdaterSuccessIsWhole'
  BY <1>1 DEF UpdaterSuccessIsWhole, Same
<1>6. RetryNeverWhole'
  BY <1>1, AtTheClose DEF RetryNeverWhole, Whole, Same, Out
<1>7. QED
  BY <1>2, <1>3, <1>4, <1>5, <1>6 DEF OutputInv

\* A call after one that released a block has it ahead again.
LEMMA CallAgainStep ==
  ASSUME OutputInv, program \in Encoders, CallAgain
  PROVE  OutputInv'
<1>1. /\ Same /\ program \in {"capi", "python"} /\ UNCHANGED <<released, inputGone>>
      /\ stage' = IF program = "capi" THEN "open" ELSE "compute"
      /\ next' = 1 /\ asked' = 0 /\ stream' = [good |-> TRUE, held |-> 0]
      /\ fresh' = (released \subseteq {0}) /\ disk' = Old /\ answer' = "none"
  BY DEF CallAgain, Same
<1>2. ProgramInv'
  BY <1>1 DEF OutputInv, ProgramInv, Same
<1>3. EncoderTypeOK'
  BY <1>1, Typed DEF EncoderTypeOK, Same, Blocks, Old
<1>4. ASSUME ~fresh' PROVE LostAhead'
  <2>1. PICK i \in released : i \in Blocks
    BY <1>1, <1>4, Typed DEF EncoderTypeOK
  <2>2. i >= 1
    BY <2>1, Typed DEF Blocks
  <2>3. QED
    BY <1>1, <2>1, <2>2 DEF LostAhead, Blocks, Same
<1>5. BytesInv'
  BY <1>1, <1>4 DEF BytesInv, Starting, Writing, Same
<1>6. QED
  BY <1>1, <1>2, <1>3, <1>5 DEF OutputInv, UpdaterSuccessIsWhole, RetryNeverWhole

LEMMA EncoderStep ==
  ASSUME OutputInv, program \in Encoders, [ToolNext]_toolVars
  PROVE  OutputInv'
<1>1. CASE UNCHANGED toolVars
  BY <1>1 DEF toolVars, outputVars, OutputInv, ProgramInv, EncoderTypeOK, BytesInv, Starting, Writing,
         Blocks, LostAhead, Out, UpdaterSuccessIsWhole, RetryNeverWhole, Whole
<1>2. CASE ComputeFails \/ OpenFails \/ Refuse
  <2>1. stage # "done" /\ Same /\ stage' = "done" /\ answer' # "true" /\ inputGone' = inputGone
        /\ UNCHANGED <<next, asked, stream, released, fresh, disk>>
    BY <1>2 DEF ComputeFails, OpenFails, Refuse, Answer, Failure, Same
  <2>2. QED
    BY <2>1, GivesUp
<1>3. ~PutFaults
  BY Typed DEF PutFaults, Gone
<1>4. ~Compute
  BY DEF Compute, Encoders, Tools
<1>5. QED
  BY <1>1, <1>2, <1>3, <1>4, StartStep, PutStep, EndPutsStep, CloseStep, WriteBytesStep, CallAgainStep
     DEF ToolNext, Act, WriteStep

--------------------------------------------------------------------------------
\* A client of the C function.  Its stream never throws: as long as it is
\* good it has or holds every byte, and no more than its buffer is held.
\* WriteTo looks at it after each block as long as the list of blocks is not
\* cleared, which it is once all of them are.
CapiInv ==
  /\ Writing => stream.held <= BufferSize
  /\ Writing /\ fresh /\ stream.good => disk + stream.held = asked
  /\ fresh /\ stage # "done" => \A i \in released : i < next
  /\ Writing => \A i \in Blocks : i < next => i \in released
  /\ 0 \in released => Blocks \subseteq released
  /\ fresh /\ stage # "done" /\ next <= Len(puts) /\ Len(puts) \in Blocks => 0 \notin released
  /\ Writing /\ fresh /\ next = Len(puts) + 1 /\ puts[Len(puts)].checked => stream.good

\* vgf_updater opens nothing when the paths are the same.
OwnPathInv == program = "updater" /\ own => stage \in {"compute", "done"} /\ disk = Old

ClientInv ==
  /\ program = "capi" => CapiInv /\ ShortOnlyByBuffer
  /\ OwnPathInv

LEMMA ClientInit == ToolInit => ClientInv
<1> SUFFICES ASSUME ToolInit PROVE ClientInv
  OBVIOUS
<1>1. PICK p \in Encoders \cup Tools : OutputInit(p)
  BY RunsAssumption DEF ToolInit, Encoders, Tools
<1>2. QED
  BY <1>1 DEF OutputInit, ClientInv, CapiInv, Writing, ShortOnlyByBuffer, OwnPathInv, Encoders, Tools

LEMMA CapiPut ==
  ASSUME OutputInv, program = "capi", CapiInv, Put
  PROVE  CapiInv' /\ ShortOnlyByBuffer'
<1> DEFINE size == PutSize(next)
<1>1. program \in Encoders /\ program # "python" /\ ~Throwing
  BY DEF Encoders, Throwing
<1>2. /\ Same /\ fresh' = fresh /\ next' = next + 1 /\ asked' = asked + puts[next].size
      /\ stage = "put" /\ next \in DOMAIN puts /\ answer # "true"
  BY <1>1, Typed DEF Put, Same, EncoderTypeOK, OutputInv, ProgramInv
<1>3. size \in Nat /\ (next \notin released => size = puts[next].size)
  BY <1>1, <1>2, Typed DEF PutSize
<1>4. PICK taken \in Taken(size) :
        /\ stream' = taken.stream
        /\ disk' = taken.disk
        /\ IF ~taken.stream.good /\ Checked(next)
           THEN Answer(Failure)
           ELSE UNCHANGED <<stage, answer>>
        /\ released' = IF puts[next].block THEN released \cup {next} ELSE released
  BY <1>1, Typed DEF Put, PutTaken, Gone
<1> HIDE DEF size
<1>5. /\ asked \in Nat /\ next \in Nat /\ puts[next].size \in Nat /\ disk \in Int
      /\ stream \in [good : BOOLEAN, held : Nat] /\ Len(puts) \in Nat /\ DOMAIN puts = 1 .. Len(puts)
      /\ \A i \in released : i \in Nat
  BY <1>1, <1>2, Typed DEF EncoderTypeOK, Blocks
<1>6. /\ stream' \in [good : BOOLEAN, held : Nat] /\ disk' \in Int
      /\ stream'.good => stream.good /\ disk' + stream'.held = disk + stream.held + size
      /\ stream.held <= BufferSize => stream'.held <= BufferSize
  BY <1>1, <1>3, <1>4, <1>5, TakenLemma
<1>7. stream.held <= BufferSize
  BY <1>2 DEF CapiInv, Writing
<1>8. stage' \in {"put", "done"} /\ answer' # "true" /\ Blocks' = Blocks
  BY <1>1, <1>2, <1>4 DEF Answer, Failure, Blocks, Same
<1>9. fresh => next \notin released /\ (stream.good => disk + stream.held = asked)
  BY <1>2, <1>5 DEF CapiInv, Writing
<1>10. fresh /\ stream'.good => disk' + stream'.held = asked'
  BY <1>2, <1>3, <1>5, <1>6, <1>9
<1>11. fresh => \A i \in released' : i < next'
  <2>1. fresh => \A i \in released : i < next
    BY <1>2 DEF CapiInv
  <2>2. ASSUME fresh, NEW i \in released' PROVE i < next'
    <3>1. i \in released \/ i = next
      BY <1>4
    <3>2. CASE i = next
      BY <1>2, <1>5, <3>2
    <3>3. CASE i \in released
      BY <1>2, <1>5, <2>1, <2>2, <3>3
    <3>4. QED
      BY <3>1, <3>2, <3>3
  <2>3. QED
    BY <2>2
<1>12. ASSUME NEW i \in Blocks, i < next' PROVE i \in released'
  <2>1. i \in Nat /\ puts[i].block
    BY <1>5 DEF Blocks
  <2>2. i < next \/ i = next
    BY <1>2, <1>5, <1>12, <2>1
  <2>3. i < next => i \in released
    BY <1>2 DEF CapiInv, Writing
  <2>4. QED
    BY <1>4, <2>1, <2>2, <2>3
<1>13. next # 0 /\ (0 \in released' <=> 0 \in released) /\ released \subseteq released'
  BY <1>2, <1>4, <1>5
<1>14. 0 \in released' => Blocks \subseteq released'
  BY <1>13 DEF CapiInv
<1>15. fresh /\ next' <= Len(puts) /\ Len(puts) \in Blocks => 0 \notin released'
  BY <1>2, <1>5, <1>13 DEF CapiInv
<1>16. fresh /\ next' = Len(puts) + 1 /\ puts[Len(puts)].checked /\ stage' = "put" => stream'.good
  <2>1. SUFFICES ASSUME fresh, next = Len(puts), puts[next].checked, stage' = "put"
                 PROVE  stream'.good
    BY <1>2, <1>5
  <2>2. next <= Len(puts) /\ (puts[next].block => Len(puts) \in Blocks)
    BY <1>2, <1>5, <2>1 DEF Blocks
  <2>3. puts[next].block => 0 \notin released
    BY <1>2, <2>1, <2>2 DEF CapiInv
  <2>4. Checked(next)
    BY <2>1, <2>3 DEF Checked
  <2>5. QED
    BY <1>2, <1>4, <2>1, <2>4 DEF Answer
<1>17. CapiInv'
  BY <1>2, <1>6, <1>7, <1>8, <1>10, <1>11, <1>12, <1>14, <1>15, <1>16 DEF CapiInv, Writing, Same
<1>18. QED
  BY <1>8, <1>17 DEF ShortOnlyByBuffer

\* The last flush is all that is not looked at.
LEMMA CapiClose ==
  ASSUME OutputInv, program = "capi", CapiInv, Close
  PROVE  CapiInv' /\ ShortOnlyByBuffer'
<1>1. program \in Encoders /\ program # "python" /\ BufferSize \in Nat
  BY OutputAssumption DEF Encoders
<1>2. /\ Same /\ stage = "close" /\ stage' = "done"
      /\ UNCHANGED <<next, asked, released, fresh>>
  BY DEF Close, Same, Answer
<1>3. /\ disk \in Int /\ stream.held \in Nat /\ asked \in Nat
  BY <1>1, <1>2, AtTheClose
<1>4. disk' \in disk .. disk + stream.held
  BY <1>3 DEF Close
<1>5. stream.held <= BufferSize /\ next = Len(puts) + 1
  BY <1>1, <1>2, Typed DEF CapiInv, Writing, BytesInv
<1>6. CapiInv'
  BY <1>2 DEF CapiInv, Writing, Blocks, Same
<1>7. disk' \in Int /\ disk <= disk'
  BY <1>3, <1>4
<1>8. ASSUME fresh, puts[Len(puts)].checked PROVE asked - disk' <= BufferSize
  <2>1. disk + stream.held = asked
    BY <1>2, <1>5, <1>8 DEF CapiInv, Writing
  <2>2. QED
    <3>1. \A held, size \in Nat, was, now \in Int :
            was <= now /\ held <= size => (was + held) - now <= size
      OBVIOUS
    <3>2. (disk + stream.held) - disk' <= BufferSize
      BY <1>1, <1>3, <1>5, <1>7, <3>1
    <3>3. QED
      BY <2>1, <3>2
<1>9. QED
  BY <1>2, <1>6, <1>8 DEF ShortOnlyByBuffer, Same

LEMMA CapiStep ==
  ASSUME OutputInv, program = "capi", CapiInv, ShortOnlyByBuffer, [ToolNext]_toolVars
  PROVE  CapiInv' /\ ShortOnlyByBuffer' /\ program' = program
<1>1. program \in Encoders /\ program # "python"
  BY DEF Encoders
<1> USE <1>1
<1>2. CASE UNCHANGED toolVars
  BY <1>2 DEF toolVars, outputVars, CapiInv, ShortOnlyByBuffer, Writing, Blocks
<1>3. CASE ComputeFails \/ OpenFails \/ Refuse
  <2>1. /\ Same /\ stage' = "done" /\ answer' # "true" /\ stage # "done"
        /\ UNCHANGED <<next, asked, stream, released, fresh, disk>>
    BY <1>3 DEF ComputeFails, OpenFails, Refuse, Answer, Failure, Same
  <2>2. QED
    BY <2>1 DEF CapiInv, ShortOnlyByBuffer, Writing, Blocks, Same
<1>4. CASE Open
  <2>1. /\ Same /\ stage = "open" /\ stage' = "put" /\ disk' = 0 /\ answer' = answer
        /\ UNCHANGED <<next, asked, stream, released, fresh>>
    BY <1>4 DEF Open, Same
  <2>2. /\ next = 1 /\ asked = 0 /\ stream.held = 0 /\ stream.good /\ answer # "true"
        /\ \A i \in Blocks : ~(i < 1)
    BY <2>1, Typed DEF BytesInv, Starting, OutputInv, ProgramInv, Blocks
  <2>3. QED
    BY <2>1, <2>2, OutputAssumption DEF CapiInv, ShortOnlyByBuffer, Writing, Blocks, Same
<1>5. CASE EndPuts
  <2>1. /\ Same /\ stage = "put" /\ stage' = "close" /\ answer' = answer /\ answer # "true"
        /\ released' = released \cup {0}
        /\ UNCHANGED <<next, asked, stream, fresh, disk>>
    BY <1>5 DEF EndPuts, Same, OutputInv, ProgramInv
  <2>2. next = Len(puts) + 1 /\ Len(puts) \in Nat /\ \A i \in Blocks : i < next
    BY <1>5, Typed DEF EndPuts, EncoderTypeOK, Blocks
  <2>3. QED
    BY <2>1, <2>2 DEF CapiInv, ShortOnlyByBuffer, Writing, Blocks, Same
<1>6. CASE CallAgain
  <2>1. /\ Same /\ stage' = "open" /\ next' = 1 /\ answer' # "true"
        /\ released' = released /\ fresh' = (released \subseteq {0})
    BY <1>6 DEF CallAgain, Same
  <2>2. Blocks' = Blocks /\ 0 \notin Blocks
    BY <2>1, Typed DEF Blocks, Same
  <2>3. ASSUME fresh' PROVE /\ \A i \in released' : i < next'
                            /\ Len(puts') \in Blocks' => 0 \notin released'
    <3>1. released \subseteq {0}
      BY <2>1, <2>3
    <3>2. \A i \in released' : i < next'
      BY <2>1, <3>1
    <3>3. 0 \in released => Blocks \subseteq {0}
      BY <3>1 DEF CapiInv
    <3>4. QED
      BY <2>1, <2>2, <3>2, <3>3
  <2>4. 0 \in released' => Blocks' \subseteq released'
    BY <2>1, <2>2 DEF CapiInv
  <2>5. QED
    BY <2>1, <2>3, <2>4 DEF CapiInv, ShortOnlyByBuffer, Writing, Same
<1>7. ~PutFaults /\ ~WriteBytes /\ ~Compute /\ ~ComputeModel
  BY Typed DEF PutFaults, Gone, WriteBytes, Compute, ComputeModel, Tools
<1>8. CASE Put
  BY <1>8, CapiPut DEF Put
<1>9. CASE Close
  BY <1>9, CapiClose DEF Close
<1>10. QED
  BY <1>2, <1>3, <1>4, <1>5, <1>6, <1>7, <1>8, <1>9 DEF ToolNext, Act, WriteStep

LEMMA OwnPathStep == OutputInv /\ OwnPathInv /\ [ToolNext]_toolVars => OwnPathInv'
<1> SUFFICES ASSUME OutputInv, OwnPathInv, [ToolNext]_toolVars, program' = "updater", own'
             PROVE  stage' \in {"compute", "done"} /\ disk' = Old
  BY DEF OwnPathInv
<1>1. program' = program /\ own' = own
  BY DEF ToolNext, Compute, Act, WriteStep, ComputeOutput, ComputeFails, ComputeModel, OpenFails,
         Open, Refuse, Put, PutFaults, EndPuts, Close, WriteBytes, CallAgain, toolVars, outputVars
<1>2. stage \in {"compute", "done"} /\ disk = Old /\ program = "updater" /\ own
  BY <1>1 DEF OwnPathInv
<1>3. CASE UNCHANGED toolVars
  BY <1>2, <1>3 DEF toolVars, outputVars
<1>4. ~Compute /\ ~CallAgain /\ ~ComputeModel
  BY <1>2 DEF Compute, CallAgain, ComputeModel, OwnPath, Tools
<1>5. CASE ComputeFails
  BY <1>2, <1>5 DEF ComputeFails, Answer
<1>6. ~OpenFails /\ ~Open /\ ~Refuse /\ ~Put /\ ~PutFaults /\ ~EndPuts /\ ~Close /\ ~WriteBytes
  BY <1>2 DEF OpenFails, Open, Refuse, Put, PutFaults, EndPuts, Close, WriteBytes
<1>7. QED
  BY <1>3, <1>4, <1>5, <1>6 DEF ToolNext, Act, WriteStep

--------------------------------------------------------------------------------
\* vgf_dump.  Its puts are unchecked and no blocks.
ToolTypeOK ==
  /\ \E run \in Runs :
       /\ program \in run.programs /\ own \in run.owns
       /\ command \in run.commands /\ file \in run.files
  /\ mapped = MappedWhileWriting(command.option)
  /\ puts \in Seq([size : Nat, checked : {FALSE}, block : {FALSE}])
  /\ next \in Nat /\ asked \in Nat /\ disk \in Int
  /\ stream \in [good : BOOLEAN, held : Nat]
  /\ released = {}

\* Of mapped bytes that are gone with the input the stream gets none out
\* while it is good, and it has failed for good when it tried.
ToolBytes ==
  /\ Starting => /\ next = 1 /\ asked = 0 /\ disk = Old /\ stream = [good |-> TRUE, held |-> 0]
                 /\ inputGone = FALSE
  /\ stage = "open" => program # "stdout"
  /\ stage = "open" \/ Writing => Len(puts) > 0 /\ Outcome(command, file) # {}
  /\ Outcome(command, file) = {} => disk = Old /\ answer \in {"none", "threw"}
  /\ Writing => /\ disk >= 0 /\ next \in 1 .. Len(puts) + 1
                /\ disk + stream.held <= asked
                /\ own /\ mapped => inputGone
  /\ Writing /\ own /\ mapped /\ next > Len(puts) /\ puts[Len(puts)].size > 0 =>
       disk + stream.held < asked
  /\ stage = "close" => next = Len(puts) + 1
  /\ Writing /\ program = "path" =>
       stream.good /\ disk + stream.held = asked /\ stream.held <= BufferSize

\* What is left of the answer once it is given.
ToolAnswered ==
  answer = "true" => /\ program = "path" => asked - disk <= BufferSize
                     /\ own /\ mapped /\ Whole => puts[Len(puts)].size = 0

ToolInv == program \in Tools => ToolTypeOK /\ ToolBytes /\ ToolAnswered

LEMMA ToolInitInv == ToolInit => ToolInv
<1> SUFFICES ASSUME ToolInit, program \in Tools PROVE ToolTypeOK /\ ToolBytes /\ ToolAnswered
  BY DEF ToolInv
<1>1. PICK run \in Runs :
        /\ \E p \in run.programs : OutputInit(p)
        /\ own \in run.owns
        /\ command \in run.commands /\ file \in run.files
        /\ mapped = MappedWhileWriting(command.option)
  BY DEF ToolInit, OutputInit, Encoders, Tools
<1>2. PICK p \in run.programs : OutputInit(p)
  BY <1>1
<1>3. program = p /\ program \notin Encoders
  BY <1>2 DEF OutputInit, Tools, Encoders
<1>4. puts = <<>> /\ puts \in Seq([size : Nat, checked : {FALSE}, block : {FALSE}])
  BY <1>2, <1>3 DEF OutputInit
<1>5. ToolTypeOK
  BY <1>1, <1>2, <1>3, <1>4 DEF OutputInit, ToolTypeOK, Old
<1>6. stage = "compute" /\ answer = "none"
  BY <1>2, <1>3 DEF OutputInit, Encoders
<1>7. ToolBytes /\ ToolAnswered
  BY <1>2, <1>6 DEF OutputInit, ToolBytes, ToolAnswered, Starting, Writing
<1>8. QED
  BY <1>5, <1>7

\* The steps of vgf_dump keep the invariant: first those it stops with.
LEMMA ToolStops ==
  ASSUME ToolInv, program \in Tools, stage # "done", stage' = "done", answer' # "true",
         \/ Outcome(command, file) # {}
         \/ answer' = "threw",
         UNCHANGED <<program, own, mapped, puts, next, asked, stream, released, disk, command, file>>
  PROVE  ToolInv'
<1>1. ToolTypeOK'
  BY DEF ToolInv, ToolTypeOK
<1>2. Outcome(command, file)' = Outcome(command, file)
  BY DEF Outcome
<1>3. ToolBytes'
  BY <1>2 DEF ToolInv, ToolBytes, Starting, Writing
<1>4. QED
  BY <1>1, <1>3 DEF ToolInv, ToolAnswered

\* What requireIndexInBounds passes is in the table.
LEMMA IndexLemma ==
  ASSUME NEW T, NEW table \in Seq(T), NEW index \in Nat, index < Len(table)
  PROVE  index + 1 \in 1 .. Len(table) /\ table[index + 1] \in T
OBVIOUS

\* A block is a power of two, ten bytes, or that of a format with more than
\* one component, which has no size here.
LEMMA FormatBlocks ==
  ASSUME NEW format
  PROVE  \/ blockSize(format) \in {1, 2, 4, 8} /\ blockSize(format) \in Powers
         \/ blockSize(format) = 10 /\ 10 \notin Powers
         \/ blockSize(format) = 0
<1>1. blockSize(format) \in {0, 1, 2, 4, 8, 10}
  BY DEF blockSize
<1>2. QED
  BY <1>1, PowersAre

\* Whatever a command makes has a size.
LEMMA MadeSizeLemma ==
  ASSUME NEW run \in Runs, NEW c \in run.commands, NEW f \in run.files, NEW output \in Outcome(c, f)
  PROVE  MadeSize(c.option, output) \in Nat
<1> DEFINE index == ToIndex(c.index)
<1>1. c.option \in {"file", "scenario", "code", "constant", "numpy"} /\ IsFile(f) /\ index \in Nat
  <2>1. /\ c.option \in {"file", "scenario", "code", "constant", "numpy"} /\ c.index \in Int
        /\ IsFile(f) /\ U32Max \in Nat
    BY RunsAssumption
  <2>2. index \in Nat
    BY <2>1 DEF ToIndex
  <2>3. QED
    BY <2>1, <2>2
<1>2. CASE c.option \in {"file", "scenario", "code"}
  BY <1>2, RunsAssumption DEF MadeSize
<1>3. CASE c.option \in {"constant", "numpy"}
  <2> DEFINE T == [mrtIndex : Nat, size : 0 .. U64Max \div 2]
             table == f.constants
             constant == table[index + 1]
  <2>1. table \in Seq(T)
    BY <1>1 DEF IsFile
  <2> HIDE DEF table, T, index
  <2>2. InBounds(index, table) => constant \in T
    BY <1>1, <2>1, IndexLemma DEF InBounds
  <2>3. CASE c.option = "constant"
    <3>1. Outcome(c, f) = getConstant(f, index)
      BY <2>3 DEF Outcome, index
    <3>2. InBounds(index, table) /\ output.bytes = constant.size
      BY <3>1 DEF getConstant, table
    <3>3. U64Max \div 2 \in Nat
      BY WordAssumption, DivLemma
    <3>4. output.bytes \in Nat
      BY <2>2, <3>2, <3>3 DEF T
    <3>5. QED
      BY <2>3, <3>4 DEF MadeSize
  <2>4. CASE c.option = "numpy"
    <3> DEFINE R == [category : STRING, descriptorType : STRING, format : STRING, shape : Seq(Int)]
               resources == f.resources
               resource == resources[constant.mrtIndex + 1]
               item == elementSizeFromBlockSize(blockSize(resource.format))
               made1(kind) == [constant |-> index, kind |-> kind, itemsize |-> item,
                               bytes |-> sizeOf(resource.shape, item)]
    <3>1. Outcome(c, f) = dumpNumpy(f, index)
      BY <2>4 DEF Outcome, index
    <3>2. /\ InBounds(index, table) /\ InBounds(constant.mrtIndex, resources)
          /\ \E kind : output = made1(kind)
      BY <3>1 DEF dumpNumpy, table
    <3>3. output.bytes = sizeOf(resource.shape, item)
      BY <3>2
    <3>4. resources \in Seq(R)
      BY <1>1 DEF IsFile
    <3> HIDE DEF resources, R, item, made1
    <3>5. constant.mrtIndex \in Nat
      BY <2>2, <3>2 DEF T
    <3>6. resource \in R
      BY <3>2, <3>4, <3>5, IndexLemma DEF InBounds
    <3>7. PICK n \in Nat : resource.shape \in [1 .. n -> Int]
      BY <3>6 DEF R
    <3>8. item \in Nat
      <4> DEFINE block == blockSize(resource.format)
      <4>1. elementSizeFromBlockSize(0) = 0
        BY DEF elementSizeFromBlockSize, isPow2
      <4>2. block \in {0, 1, 2, 4, 8, 10}
        BY FormatBlocks
      <4> HIDE DEF block
      <4>3. elementSizeFromBlockSize(block) \in Nat
        BY <4>1, <4>2, ElementSizes
      <4>4. QED
        BY <4>3 DEF item, block
    <3>9. output.bytes \in Nat
      BY <3>3, <3>7, <3>8, SizeOfIsNat
    <3>10. QED
      BY <2>4, <3>9 DEF MadeSize
  <2>5. QED
    BY <1>3, <2>3, <2>4
<1>4. QED
  BY <1>1, <1>2, <1>3

LEMMA ToolCompute ==
  ASSUME OutputInv, ToolInv, program \in Tools, Compute
  PROVE  ToolInv'
<1> DEFINE outcome == Outcome(command, file)
           sizes == {MadeSize(command.option, output) : output \in outcome}
           size == CHOOSE s \in sizes : TRUE
           data == [size |-> size, checked |-> FALSE, block |-> FALSE]
           header == [size |-> HeaderSize, checked |-> FALSE, block |-> FALSE]
<1>1. /\ stage = "compute"
      /\ UNCHANGED <<program, own, mapped, next, asked, stream, released, inputGone, command, file>>
      /\ IF sizes = {}
         THEN Answer("threw") /\ UNCHANGED puts
         ELSE /\ puts' = IF program = "numpy" THEN <<[data EXCEPT !.size = HeaderSize], data>>
                         ELSE <<data>>
              /\ stage' = IF program = "stdout" THEN "put" ELSE "open"
              /\ UNCHANGED answer
      /\ disk' = IF program = "stdout" /\ sizes # {} THEN 0 ELSE disk
  BY DEF Compute, ComputeOutput, BeforeOpen
<1>2. PICK run \in Runs :
        /\ program \in run.programs /\ own \in run.owns
        /\ command \in run.commands /\ file \in run.files
  BY DEF ToolInv, ToolTypeOK
<1>3. \A output \in outcome : MadeSize(command.option, output) \in Nat
  BY <1>2, MadeSizeLemma DEF outcome
<1> HIDE DEF outcome
<1>4. sizes \subseteq Nat /\ (sizes # {} => outcome # {})
  BY <1>3
<1> HIDE DEF sizes
<1>5. CASE sizes = {}
  <2>1. /\ stage # "done" /\ stage' = "done" /\ answer' = "threw" /\ answer' # "true"
        /\ UNCHANGED <<program, own, mapped, puts, next, asked, stream, released, disk, command, file>>
    BY <1>1, <1>5 DEF Answer
  <2>2. QED
    BY <2>1, ToolStops
<1>6. CASE sizes # {}
  <2>1. size \in Nat
    BY <1>4, <1>6
  <2> HIDE DEF size
  <2>2. puts' = (IF program = "numpy" THEN <<header, data>> ELSE <<data>>) /\ answer' = answer
    BY <1>1, <1>6
  <2>3. header \in [size : Nat, checked : {FALSE}, block : {FALSE}]
        /\ data \in [size : Nat, checked : {FALSE}, block : {FALSE}]
    BY <2>1, RunsAssumption
  <2> HIDE DEF header, data
  <2>4. /\ puts' \in Seq([size : Nat, checked : {FALSE}, block : {FALSE}])
        /\ Len(puts') \in {1, 2}
    <3> DEFINE P == [size : Nat, checked : {FALSE}, block : {FALSE}]
    <3>1. header \in P /\ data \in P
      BY <2>3
    <3> HIDE DEF P
    <3>2. /\ <<data>> \in Seq(P) /\ Len(<<data>>) = 1
          /\ <<header, data>> \in Seq(P) /\ Len(<<header, data>>) = 2
      BY <3>1
    <3>3. puts' \in Seq(P) /\ Len(puts') \in {1, 2}
      BY <2>2, <3>2
    <3>4. QED
      BY <3>3 DEF P
  <2>5. /\ stage' = (IF program = "stdout" THEN "put" ELSE "open")
        /\ disk' = IF program = "stdout" THEN 0 ELSE disk
    BY <1>1, <1>6
  <2>6. /\ next = 1 /\ asked = 0 /\ disk = Old /\ stream = [good |-> TRUE, held |-> 0]
        /\ inputGone = FALSE
    BY <1>1 DEF ToolInv, ToolBytes, Starting
  <2>7. program = "stdout" => ~own
    BY <1>2, RunsAssumption
  <2>8. ToolTypeOK'
    BY <1>1, <2>4, <2>5, <2>6 DEF ToolInv, ToolTypeOK, Old
  <2>9. Outcome(command', file') # {}
    BY <1>1, <1>4, <1>6 DEF outcome
  <2>10. ToolBytes'
    <3>1. /\ next' = 1 /\ asked' = 0 /\ inputGone' = FALSE /\ program' = program /\ own' = own
          /\ stream' = [good |-> TRUE, held |-> 0] /\ stream'.held = 0
      BY <1>1, <2>6
    <3>2. Len(puts') > 0 /\ next' \in 1 .. Len(puts') + 1 /\ ~(next' > Len(puts'))
      BY <2>4, <3>1
    <3>3. CASE program = "stdout"
      BY <2>5, <2>7, <2>9, <3>1, <3>2, <3>3 DEF ToolBytes, Starting, Writing
    <3>4. CASE program # "stdout"
      BY <2>5, <2>6, <2>9, <3>1, <3>2, <3>4 DEF ToolBytes, Starting, Writing
    <3>5. QED
      BY <3>3, <3>4
  <2>11. answer' # "true"
    BY <1>1, <2>2 DEF OutputInv, ProgramInv
  <2>12. QED
    BY <2>8, <2>10, <2>11 DEF ToolInv, ToolAnswered
<1>7. QED
  BY <1>5, <1>6

\* The facts about the put that is next.
LEMMA ToolNextPut ==
  ASSUME ToolInv, program \in Tools, NEW i \in 1 .. Len(puts)
  PROVE  puts[i].size \in Nat /\ puts[i].checked = FALSE /\ puts[i].block = FALSE
<1>1. puts \in Seq([size : Nat, checked : {FALSE}, block : {FALSE}])
  BY DEF ToolInv, ToolTypeOK
<1>2. puts[i] \in [size : Nat, checked : {FALSE}, block : {FALSE}]
  BY <1>1, ElementOfSeq
<1>3. QED
  BY <1>2

\* What is gone gets nothing out beside what the stream held.
LEMMA ToolTaken ==
  ASSUME ToolInv, program \in Tools, stage = "put", next \in 1 .. Len(puts),
         NEW taken \in PutTaken(next)
  PROVE  /\ taken.stream \in [good : BOOLEAN, held : Nat]
         /\ taken.disk \in Int /\ taken.disk >= disk
         /\ taken.disk + taken.stream.held <= disk + stream.held + puts[next].size
         /\ taken.stream.good => taken.disk + taken.stream.held = disk + stream.held + puts[next].size
         /\ stream.held <= BufferSize => taken.stream.held <= BufferSize
         /\ inputGone /\ next = Len(puts) /\ puts[next].size > 0 =>
              taken.disk + taken.stream.held <= disk + stream.held
<1>1. stream \in [good : BOOLEAN, held : Nat] /\ disk \in Int /\ stream.held \in Nat /\ BufferSize \in Nat
  BY OutputAssumption DEF ToolInv, ToolTypeOK
<1>2. puts[next].size \in Nat /\ program # "python" /\ PutSize(next) = puts[next].size
  BY ToolNextPut DEF Tools, PutSize, ToolInv, ToolTypeOK
<1>3. CASE Gone(next)
  <2>1. taken \in {[stream |-> [good |-> FALSE, held |-> 0], disk |-> disk + part] :
                     part \in 0 .. (stream.held + 1) - 1}
    BY <1>3 DEF PutTaken, Broken
  <2>2. PICK part \in 0 .. (stream.held + 1) - 1 :
          taken = [stream |-> [good |-> FALSE, held |-> 0], disk |-> disk + part]
    BY <2>1
  <2>3. /\ taken.stream = [good |-> FALSE, held |-> 0] /\ taken.disk = disk + part
        /\ taken.stream.held = 0 /\ taken.stream.good = FALSE /\ part \in Nat /\ part <= stream.held
    BY <1>1, <2>2
  <2>4. QED
    BY <1>1, <1>2, <2>3
<1>4. CASE ~Gone(next)
  <2>1. taken \in Taken(puts[next].size)
    BY <1>2, <1>4 DEF PutTaken
  <2>2. inputGone /\ next = Len(puts) /\ puts[next].size > 0 => ~stream.good
    BY <1>4 DEF Gone
  <2>3. /\ taken.stream \in [good : BOOLEAN, held : Nat]
        /\ taken.disk \in Int /\ taken.disk >= disk
        /\ taken.disk + taken.stream.held <= disk + stream.held + puts[next].size
        /\ taken.stream.good =>
             stream.good /\ taken.disk + taken.stream.held = disk + stream.held + puts[next].size
        /\ ~stream.good => taken.disk + taken.stream.held = disk + stream.held
        /\ stream.held <= BufferSize => taken.stream.held <= BufferSize
    BY <1>1, <1>2, <2>1, TakenLemma
  <2>4. taken.disk + taken.stream.held \in Int /\ disk + stream.held \in Int
    BY <1>1, <2>3
  <2>5. QED
    BY <2>2, <2>3, <2>4
<1>5. QED
  BY <1>3, <1>4

LEMMA ToolPut ==
  ASSUME OutputInv, ToolInv, program \in Tools, Put, UNCHANGED <<command, file>>
  PROVE  ToolInv'
<1>1. /\ stage = "put" /\ next' = next + 1 /\ asked' = asked + puts[next].size /\ answer # "true"
      /\ UNCHANGED <<program, own, mapped, puts, inputGone, command, file>>
  BY DEF Put, OutputInv, ProgramInv
<1>2. /\ next \in 1 .. Len(puts) /\ Len(puts) \in Nat /\ Outcome(command, file) # {}
      /\ asked \in Nat /\ disk \in Int /\ disk >= 0 /\ stream.held \in Nat
      /\ disk + stream.held <= asked
      /\ own /\ mapped => inputGone
      /\ program = "path" => disk + stream.held = asked /\ stream.held <= BufferSize
  BY <1>1 DEF Put, ToolInv, ToolTypeOK, ToolBytes, Writing
<1>3. /\ puts[next].size \in Nat /\ puts[next].checked = FALSE /\ puts[next].block = FALSE
  BY <1>2, ToolNextPut
<1>4. PICK taken \in PutTaken(next) :
        /\ stream' = taken.stream
        /\ disk' = taken.disk
        /\ IF ~taken.stream.good /\ Throwing
           THEN Answer(Failure)
           ELSE UNCHANGED <<stage, answer>>
        /\ released' = released
  BY <1>3 DEF Put, Checked
<1>5. /\ stream' \in [good : BOOLEAN, held : Nat]
      /\ disk' \in Int /\ disk' >= disk
      /\ disk' + stream'.held <= disk + stream.held + puts[next].size
      /\ stream'.good => disk' + stream'.held = disk + stream.held + puts[next].size
      /\ stream.held <= BufferSize => stream'.held <= BufferSize
      /\ inputGone /\ next = Len(puts) /\ puts[next].size > 0 =>
           disk' + stream'.held <= disk + stream.held
  BY <1>1, <1>2, <1>4, ToolTaken
<1>6. stream'.held \in Nat
  BY <1>5
<1>7. stage' \in {"put", "done"} /\ answer' # "true" /\ (stage' = "put" => answer' = answer)
  BY <1>1, <1>4 DEF Answer, Failure
<1>8. program = "path" /\ stage' = "put" => stream'.good
  BY <1>1, <1>4 DEF Answer, Throwing
<1>9. ToolTypeOK'
  BY <1>1, <1>2, <1>3, <1>4, <1>5 DEF ToolInv, ToolTypeOK
<1>10. disk' >= 0 /\ next' \in 1 .. Len(puts) + 1 /\ disk' + stream'.held <= asked'
  <2>1. next' \in 1 .. Len(puts) + 1 /\ disk' >= 0
    BY <1>1, <1>2, <1>5
  <2>2. \A now, was, all, size \in Int : now <= was + size /\ was <= all => now <= all + size
    OBVIOUS
  <2>3. disk' + stream'.held \in Int /\ disk + stream.held \in Int
    BY <1>2, <1>5, <1>6
  <2>4. disk' + stream'.held <= (disk + stream.held) + puts[next].size /\ disk + stream.held <= asked
    BY <1>2, <1>5
  <2>5. disk' + stream'.held <= asked + puts[next].size
    <3>1. asked \in Int /\ puts[next].size \in Int
      BY <1>2, <1>3
    <3>2. QED
      BY <2>2, <2>3, <2>4, <3>1
  <2>6. QED
    BY <1>1, <2>1, <2>5
<1>11. ASSUME own, mapped, next' > Len(puts), puts[Len(puts)].size > 0
       PROVE  disk' + stream'.held < asked'
  <2>1. next = Len(puts) /\ inputGone
    BY <1>1, <1>2, <1>11
  <2>2. disk' + stream'.held <= disk + stream.held /\ puts[next].size > 0
    BY <1>5, <1>11, <2>1
  <2>3. QED
    BY <1>1, <1>2, <1>3, <1>5, <1>6, <2>2
<1>12. program = "path" /\ stage' = "put" =>
         stream'.good /\ disk' + stream'.held = asked' /\ stream'.held <= BufferSize
  BY <1>1, <1>2, <1>3, <1>5, <1>6, <1>8
<1>13. ToolBytes'
  BY <1>1, <1>2, <1>7, <1>10, <1>11, <1>12 DEF ToolBytes, Starting, Writing
<1>14. QED
  BY <1>7, <1>9, <1>13 DEF ToolInv, ToolAnswered

LEMMA ToolClose ==
  ASSUME OutputInv, ToolInv, program \in Tools, Close, UNCHANGED <<command, file>>
  PROVE  ToolInv'
<1>1. /\ stage = "close" /\ stage' = "done" /\ answer' \in {"true", "threw"}
      /\ stream' = [stream EXCEPT !.held = 0]
      /\ UNCHANGED <<program, own, mapped, puts, next, asked, released, inputGone, command, file>>
  BY DEF Close, Answer
<1>2. /\ next = Len(puts) + 1 /\ Len(puts) \in Nat /\ Len(puts) > 0 /\ Outcome(command, file) # {}
      /\ asked \in Nat /\ disk \in Int /\ stream.held \in Nat
      /\ stream \in [good : BOOLEAN, held : Nat]
      /\ own /\ mapped /\ puts[Len(puts)].size > 0 => disk + stream.held < asked
      /\ program = "path" => disk + stream.held = asked /\ stream.held <= BufferSize
  BY <1>1 DEF ToolInv, ToolTypeOK, ToolBytes, Writing
<1>3. disk' \in disk .. disk + stream.held
  BY <1>2 DEF Close
<1>4. disk' \in Int /\ disk <= disk' /\ disk' <= disk + stream.held
  BY <1>2, <1>3
<1>5. ToolTypeOK'
  BY <1>1, <1>2, <1>4 DEF ToolInv, ToolTypeOK
<1>6. ToolBytes'
  BY <1>1, <1>2 DEF ToolBytes, Starting, Writing
<1>7. ASSUME program = "path" PROVE asked - disk' <= BufferSize
  <2>1. \A held, size \in Nat, was, now \in Int :
          was <= now /\ held <= size => (was + held) - now <= size
    OBVIOUS
  <2>2. (disk + stream.held) - disk' <= BufferSize
    BY <1>2, <1>4, <1>7, <2>1, OutputAssumption
  <2>3. QED
    BY <1>2, <1>7, <2>2
<1>8. ASSUME own, mapped, disk' = asked PROVE puts[Len(puts)].size = 0
  <2>1. puts[Len(puts)].size \in Nat
    <3>1. Len(puts) \in 1 .. Len(puts)
      BY <1>2
    <3>2. QED
      BY <3>1, ToolNextPut
  <2>2. ~(disk + stream.held < asked)
    BY <1>2, <1>4, <1>8
  <2>3. QED
    BY <1>2, <1>8, <2>1, <2>2
<1>9. QED
  BY <1>1, <1>5, <1>6, <1>7, <1>8 DEF ToolInv, ToolAnswered, Whole

LEMMA ToolStepInv ==
  ASSUME OutputInv, ToolInv, program \in Tools, [ToolNext]_toolVars
  PROVE  ToolInv' /\ program' = program
<1>1. CASE UNCHANGED toolVars
  BY <1>1 DEF toolVars, outputVars, ToolInv, ToolTypeOK, ToolBytes, ToolAnswered, Starting, Writing, Whole
<1>2. CASE Compute
  BY <1>2, ToolCompute DEF Compute, ComputeOutput
<1>3. ASSUME WriteStep, UNCHANGED <<command, file, made>> PROVE ToolInv' /\ program' = program
  <2>1. ~ComputeFails /\ ~ComputeModel /\ ~Refuse /\ ~WriteBytes
    BY DEF ComputeFails, ComputeModel, Refuse, WriteBytes, Tools, Encoders
  <2>2. CASE OpenFails
    <3>1. /\ stage = "open" /\ stage' = "done" /\ answer' = "threw"
          /\ UNCHANGED <<program, own, mapped, puts, next, asked, stream, released, disk, command, file>>
      BY <1>3, <2>2 DEF OpenFails, Answer, Failure, Tools
    <3>2. QED
      BY <3>1, ToolStops
  <2>3. CASE PutFaults
    <3>1. /\ stage = "put" /\ stage' = "done" /\ answer' = "killed"
          /\ UNCHANGED <<program, own, mapped, puts, next, asked, stream, released, disk, command, file>>
      BY <1>3, <2>3 DEF PutFaults, Answer
    <3>2. Outcome(command, file) # {}
      BY <3>1 DEF ToolInv, ToolBytes, Writing
    <3>3. QED
      BY <3>1, <3>2, ToolStops
  <2>4. CASE Open
    <3>1. /\ stage = "open" /\ stage' = "put" /\ disk' = 0 /\ inputGone' = (own /\ mapped)
          /\ UNCHANGED <<program, own, mapped, puts, next, asked, stream, released, answer, command, file>>
      BY <1>3, <2>4 DEF Open
    <3>2. /\ next = 1 /\ asked = 0 /\ stream = [good |-> TRUE, held |-> 0]
          /\ Len(puts) \in Nat /\ Len(puts) > 0 /\ Outcome(command, file) # {} /\ answer # "true"
          /\ BufferSize \in Nat
      BY <3>1, OutputAssumption DEF ToolInv, ToolTypeOK, ToolBytes, Starting, OutputInv, ProgramInv
    <3>3. ToolTypeOK'
      BY <3>1 DEF ToolInv, ToolTypeOK
    <3>4. ToolBytes'
      <4>1. /\ stream'.held = 0 /\ stream'.good /\ next' = 1 /\ asked' = 0
            /\ 1 \in 1 .. Len(puts) + 1 /\ ~(1 > Len(puts)) /\ stream'.held <= BufferSize
        BY <3>1, <3>2
      <4>2. own' /\ mapped' => inputGone'
        BY <3>1
      <4>3. Outcome(command', file') # {} /\ disk' >= 0 /\ disk' + stream'.held <= asked'
            /\ disk' + stream'.held = asked' /\ Len(puts') > 0 /\ next' \in 1 .. Len(puts') + 1
        BY <3>1, <3>2, <4>1
      <4>4. QED
        BY <3>1, <4>1, <4>2, <4>3 DEF ToolBytes, Starting, Writing
    <3>5. QED
      BY <3>1, <3>2, <3>3, <3>4 DEF ToolInv, ToolAnswered
  <2>5. CASE EndPuts
    <3>1. /\ stage = "put" /\ stage' = "close"
          /\ UNCHANGED <<program, own, mapped, puts, next, asked, stream, released, inputGone, disk,
                         answer, command, file>>
      BY <1>3, <2>5 DEF EndPuts, Tools, Encoders
    <3>2. next = Len(puts) + 1 /\ answer # "true"
      BY <2>5, <3>1 DEF EndPuts, ToolInv, ToolTypeOK, ToolBytes, Writing, OutputInv, ProgramInv
    <3>3. ToolTypeOK'
      BY <3>1 DEF ToolInv, ToolTypeOK
    <3>4. ToolBytes'
      BY <3>1, <3>2 DEF ToolInv, ToolBytes, Starting, Writing
    <3>5. QED
      BY <3>1, <3>2, <3>3, <3>4 DEF ToolInv, ToolAnswered
  <2>6. CASE Put
    BY <1>3, <2>6, ToolPut DEF Put
  <2>7. CASE Close
    BY <1>3, <2>7, ToolClose DEF Close
  <2>8. QED
    BY <1>3, <2>1, <2>2, <2>3, <2>4, <2>5, <2>6, <2>7 DEF WriteStep, OpenFails, PutFaults, Open, EndPuts
<1>4. ~CallAgain
  BY DEF CallAgain, Tools
<1>5. QED
  BY <1>1, <1>2, <1>3, <1>4 DEF ToolNext, Act

\* What vgf_dump makes it makes once, of a file that stays.
MadeInv == program \in Tools => made = {} \/ made = Outcome(command, file)

LEMMA MadeStep == MadeInv /\ [ToolNext]_toolVars => MadeInv'
<1> SUFFICES ASSUME MadeInv, [ToolNext]_toolVars PROVE MadeInv'
  OBVIOUS
<1>1. CASE UNCHANGED toolVars
  BY <1>1 DEF toolVars, outputVars, MadeInv
<1>2. CASE Compute
  <2>1. made' = Outcome(command, file) /\ command' = command /\ file' = file
    BY <1>2 DEF Compute
  <2>2. QED
    BY <2>1 DEF MadeInv
<1>3. CASE Act(WriteStep) \/ Act(CallAgain)
  <2>1. program' = program /\ command' = command /\ file' = file /\ made' = made
    BY <1>3 DEF Act, WriteStep, ComputeFails, ComputeModel, OpenFails, Open, Refuse, Put, PutFaults,
           EndPuts, Close, WriteBytes, CallAgain
  <2>2. QED
    BY <2>1 DEF MadeInv
<1>4. QED
  BY <1>1, <1>2, <1>3 DEF ToolNext

\* The file and the command are of the run.
LEMMA FileLemma ==
  ASSUME ToolInv, program \in Tools
  PROVE  IsFile(file) /\ command.index \in Int
BY RunsAssumption DEF ToolInv, ToolTypeOK

\* The listing and getCode go by the same two fields of a module.
LEMMA ListedLemma == ToolInv /\ MadeInv => CodeAsListed
<1> SUFFICES ASSUME ToolInv, MadeInv, program \in Tools, command.option = "file", NEW json \in made,
                    NEW i \in DOMAIN json.modules, NEW shader \in {"SPIR-V", "GLSL", "HLSL"}
             PROVE  getCode(file, shader, i - 1) # {}
                      <=> json.modules[i].shaderType = shader /\ json.modules[i].codeAvailable
  BY DEF CodeAsListed, Made
<1>1. made = Outcome(command, file)
  BY DEF MadeInv
<1>2. json \in getFile(file)
  <2>1. Outcome(command, file) = Printed(getFile(file), Elements(file.modules))
    BY DEF Outcome
  <2>2. QED
    BY <1>1, <2>1 DEF Printed
<1>3. /\ Opens(file, {"modules", "resources", "sequence", "constants"})
      /\ json.modules = ParsedModules(file)
  BY <1>2 DEF getFile
<1>4. Opens(file, {"modules"})
  BY <1>3 DEF Opens
<1>5. Len(file.modules) \in Nat
  BY FileLemma DEF IsFile
<1> DEFINE module == file.modules[i]
           entry == json.modules[i]
           available == module.text # ""
           kind == shaderType(module)
<1>6. /\ i \in 1 .. Len(file.modules)
      /\ entry = [index |-> i - 1, type |-> module.type, name |-> module.name,
                  shaderType |-> kind, codeAvailable |-> available]
  BY <1>3 DEF ParsedModules
<1>7. i - 1 < Len(file.modules) /\ (i - 1) + 1 = i
  <2> DEFINE n == Len(file.modules)
  <2>1. n \in Nat /\ i \in 1 .. n
    BY <1>5, <1>6
  <2> HIDE DEF n
  <2>2. i - 1 < n /\ (i - 1) + 1 = i
    BY <2>1
  <2>3. QED
    BY <2>2 DEF n
<1>8. InBounds(i - 1, file.modules) /\ file.modules[(i - 1) + 1] = module
  BY <1>7 DEF InBounds
<1> HIDE DEF module, entry
<1>9. getCode(file, shader, i - 1) = {m.text : m \in {n \in {module} : n.shader = shader /\ n.text # ""}}
  BY <1>4, <1>8 DEF getCode
<1>10. getCode(file, shader, i - 1) # {} <=> module.shader = shader /\ available
  BY <1>9
<1>11. kind = shader <=> module.shader = shader
  BY DEF shaderType
<1> HIDE DEF available, kind
<1>12. entry.shaderType = kind /\ (entry.codeAvailable <=> available)
  BY <1>6
<1>13. getCode(file, shader, i - 1) # {} <=> entry.shaderType = shader /\ entry.codeAvailable
  BY <1>10, <1>11, <1>12
<1>14. QED
  BY <1>13 DEF entry

--------------------------------------------------------------------------------
\* An item and a shape as dumpNumpy and the constant's size see them.
LEMMA NumpyBytes ==
  ASSUME NEW n \in Nat, NEW shape \in [1 .. n -> Int], NEW block, NEW size \in 1 .. U64Max \div 2,
         Exact(shape, block) = size, block \in {1, 2, 4, 8, 10}
  PROVE  sizeOf(shape, elementSizeFromBlockSize(block)) =
           IF block = 10 THEN 16 * Exact(shape, 1) ELSE size
<1> DEFINE item == elementSizeFromBlockSize(block)
           product == Exact(shape, 1)
           half == U64Max \div 2
<1>1. U64Max \in Nat /\ half \in Nat /\ 2 * half <= U64Max
  BY WordAssumption, DivLemma
<1>2. product \in Int /\ size = block * product
  BY ExactScales
<1>3. item = IF block = 10 THEN 16 ELSE block
  BY ElementSizes
<1>4. item \in Int /\ Exact(shape, item) = item * product
  BY <1>3, ExactScales
<1> HIDE DEF item, product, half
<1>5. size \in 1 .. half
  BY DEF half
<1>6. product >= 1
  BY <1>1, <1>2, <1>5
<1>7. item \in 1 .. U64Max /\ item * product \in 0 .. U64Max
  BY <1>1, <1>2, <1>3, <1>5, <1>6
<1>8. sizeOf(shape, item) = (item * product) % (U64Max + 1)
  BY <1>4, <1>7, SizeOfLemma DEF U64
<1>9. (item * product) % (U64Max + 1) = item * product
  <2> DEFINE p == item * product
  <2>1. p \in 0 .. U64Max
    BY <1>7
  <2> HIDE DEF p
  <2>2. p % (U64Max + 1) = p
    BY <1>1, <2>1
  <2>3. QED
    BY <2>2 DEF p
<1>10. sizeOf(shape, item) = IF block = 10 THEN 16 * product ELSE size
  BY <1>2, <1>3, <1>8, <1>9
<1>11. QED
  BY <1>10 DEF item, product

LEMMA NumpyLemma == ToolInv /\ MadeInv => NumpyExact
<1> SUFFICES ASSUME ToolInv, MadeInv, program \in Tools, command.option = "numpy", NEW npy \in made
             PROVE  LET constant == file.constants[npy.constant + 1]
                        resource == file.resources[constant.mrtIndex + 1]
                        block == blockSize(resource.format)
                        needed == Exact(resource.shape, block)
                    IN  constant.size = needed /\ needed > 0 =>
                          /\ npy.bytes >= constant.size
                          /\ npy.bytes = constant.size <=> block \in Powers
  BY DEF NumpyExact, Made
<1> DEFINE index == ToIndex(command.index)
           constant == file.constants[index + 1]
           resource == file.resources[constant.mrtIndex + 1]
           block == blockSize(resource.format)
           shape == resource.shape
           size == constant.size
<1>1. made = dumpNumpy(file, index)
  BY DEF MadeInv, Outcome
<1> DEFINE header(kind) == [constant |-> index, kind |-> kind, itemsize |-> elementSizeFromBlockSize(block),
                            bytes |-> sizeOf(shape, elementSizeFromBlockSize(block))]
<1>2. /\ InBounds(index, file.constants) /\ InBounds(constant.mrtIndex, file.resources)
      /\ npy.constant = index /\ npy.bytes = sizeOf(shape, elementSizeFromBlockSize(block))
  <2>1. /\ InBounds(index, file.constants) /\ InBounds(constant.mrtIndex, file.resources)
        /\ made = {header(kind) : kind \in numpyTypeEncoding(componentNumericFormat(resource.format))}
    <3> HIDE DEF index
    <3>1. QED
      BY <1>1 DEF dumpNumpy
  <2>2. PICK kind : npy = header(kind)
    BY <2>1
  <2> HIDE DEF index, block
  <2>3. QED
    BY <2>1, <2>2
<1>3. index \in Nat
  BY FileLemma, RunsAssumption DEF ToIndex
<1>4. constant \in [mrtIndex : Nat, size : 0 .. U64Max \div 2]
  <2>1. file.constants \in Seq([mrtIndex : Nat, size : 0 .. U64Max \div 2]) /\ index < Len(file.constants)
    BY <1>2, FileLemma DEF InBounds, IsFile
  <2> DEFINE T == [mrtIndex : Nat, size : 0 .. U64Max \div 2]
             table == file.constants
  <2> HIDE DEF index, T, table
  <2>2. table \in Seq(T) /\ index < Len(table)
    BY <2>1 DEF T, table
  <2>3. table[index + 1] \in T
    BY <1>3, <2>2, IndexLemma
  <2>4. QED
    BY <2>3 DEF T, table
<1>5. resource \in [category : STRING, descriptorType : STRING, format : STRING, shape : Seq(Int)]
  <2> DEFINE table == file.resources
             i == constant.mrtIndex
             T == [category : STRING, descriptorType : STRING, format : STRING, shape : Seq(Int)]
  <2>1. table \in Seq(T)
    BY FileLemma DEF IsFile
  <2>2. i \in Nat /\ i < Len(table)
    BY <1>2, <1>4 DEF InBounds
  <2> HIDE DEF table, i, T
  <2>3. table[i + 1] \in T
    BY <2>1, <2>2, IndexLemma
  <2>4. QED
    BY <2>3 DEF table, i, T
<1> SUFFICES ASSUME size = Exact(shape, block), Exact(shape, block) > 0
             PROVE  sizeOf(shape, elementSizeFromBlockSize(block)) >= size
                    /\ (sizeOf(shape, elementSizeFromBlockSize(block)) = size <=> block \in Powers)
  BY <1>2
<1>6. size \in 0 .. U64Max \div 2 /\ shape \in Seq(Int) /\ U64Max \div 2 \in Nat
  BY <1>4, <1>5, WordAssumption
<1>7. Len(shape) \in Nat /\ shape \in [1 .. Len(shape) -> Int]
  <2> HIDE DEF shape
  <2>1. QED
    BY <1>6
<1>b. \/ block \in {1, 2, 4, 8} /\ block \in Powers
      \/ block = 10 /\ 10 \notin Powers
      \/ block = 0
  BY FormatBlocks
<1> HIDE DEF index, constant, resource, block, shape, size
<1>8. size \in 1 .. U64Max \div 2
  BY <1>6
<1>9. block \in Int
  BY <1>b
<1>10. Exact(shape, 1) \in Int /\ size = block * Exact(shape, 1)
  BY <1>7, <1>9, ExactScales
<1>11. block # 0
  BY <1>8, <1>10
<1>12. block \in {1, 2, 4, 8, 10}
  BY <1>11, <1>b
<1>13. sizeOf(shape, elementSizeFromBlockSize(block)) =
         IF block = 10 THEN 16 * Exact(shape, 1) ELSE size
  BY <1>7, <1>8, <1>12, NumpyBytes
<1>14. QED
  BY <1>8, <1>10, <1>11, <1>13, <1>b

--------------------------------------------------------------------------------
\* A list whose uids differ pairwise has as many of them as entries.
LEMMA DistinctLemma ==
  ASSUME NEW n \in Nat, NEW list, DOMAIN list = 1 .. n, Len(list) = n,
         \A i, j \in 1 .. n : list[i].uid = list[j].uid => i = j
  PROVE  Distinct(list)
<1> DEFINE f == [i \in 1 .. n |-> list[i].uid]
<1>1. Uids(list) = {list[i].uid : i \in 1 .. n}
  BY DEF Uids
<1>2. f \in Bijection(1 .. n, Uids(list))
  <2>1. \A t \in Uids(list) : \E i \in 1 .. n : f[i] = t
    BY <1>1
  <2>2. f \in [1 .. n -> Uids(list)]
    BY <1>1
  <2>3. \A i, j \in 1 .. n : f[i] = f[j] => i = j
    OBVIOUS
  <2> HIDE DEF f
  <2>4. QED
    BY <2>1, <2>2, <2>3 DEF Bijection, Injection, Surjection, IsInjective
<1>3. IsFiniteSet(1 .. n) /\ Cardinality(1 .. n) = n
  BY FS_Interval
<1>4. Cardinality(Uids(list)) = n
  BY <1>2, <1>3, FS_Bijection DEF ExistsBijection
<1>5. QED
  BY <1>4 DEF Distinct

\* The shaders are the compute modules, in the order of the modules.
Entry ==
  [index : Nat, type : STRING, name : STRING, shaderType : {"None"} \cup STRING,
   codeAvailable : BOOLEAN]

Increasing(list) == \A i, j \in 1 .. Len(list) : i < j => list[i].index < list[j].index

ShadersOf(entries, k, list) ==
  /\ list \in Seq(Entry)
  /\ \A j \in 1 .. Len(list) : /\ list[j].index \in 0 .. k - 1
                               /\ list[j] = entries[list[j].index + 1]
                               /\ list[j].type = "COMPUTE"
  /\ Increasing(list)
  /\ \A m \in 1 .. k : entries[m].type = "COMPUTE" => \E j \in 1 .. Len(list) : list[j] = entries[m]

LEMMA ShadersStep ==
  ASSUME NEW n \in Nat, NEW entries \in [1 .. n -> Entry], NEW k \in 0 .. n - 1,
         entries[k + 1].index = k, NEW list, ShadersOf(entries, k, list)
  PROVE  ShadersOf(entries, k + 1,
                   IF entries[k + 1].type = "COMPUTE" THEN Append(list, entries[k + 1]) ELSE list)
<1> DEFINE entry == entries[k + 1]
           longer == Append(list, entry)
           len == Len(list)
<1>1. entry \in Entry /\ entry.index = k /\ k \in Nat
  OBVIOUS
<1>2. /\ list \in Seq(Entry)
      /\ \A j \in 1 .. len : /\ list[j].index \in 0 .. k - 1
                             /\ list[j] = entries[list[j].index + 1]
                             /\ list[j].type = "COMPUTE"
      /\ \A i, j \in 1 .. len : i < j => list[i].index < list[j].index
      /\ \A m \in 1 .. k : entries[m].type = "COMPUTE" => \E j \in 1 .. len : list[j] = entries[m]
  BY DEF ShadersOf, Increasing
<1>3. len \in Nat
  BY <1>2
<1>4. \A m \in 1 .. k + 1 : m \in 1 .. k \/ m = k + 1
  BY <1>1
<1>5. CASE entry.type = "COMPUTE"
  <2>1. /\ longer \in Seq(Entry) /\ Len(longer) = len + 1 /\ longer[len + 1] = entry
        /\ \A j \in 1 .. len : longer[j] = list[j]
    BY <1>1, <1>2
  <2>2. \A j \in 1 .. len + 1 : j \in 1 .. len \/ j = len + 1
    BY <1>3
  <2> HIDE DEF longer, len
  <2>e. entry = entries[k + 1]
    OBVIOUS
  <2> HIDE DEF entry
  <2>3. ASSUME NEW j \in 1 .. len + 1
        PROVE  /\ longer[j].index \in 0 .. k
               /\ longer[j] = entries[longer[j].index + 1]
               /\ longer[j].type = "COMPUTE"
    <3>1. CASE j \in 1 .. len
      BY <1>1, <1>2, <2>1, <3>1
    <3>2. CASE j = len + 1
      BY <1>1, <1>5, <2>1, <2>e, <3>2
    <3>3. QED
      BY <2>2, <3>1, <3>2
  <2>4. ASSUME NEW i \in 1 .. len + 1, NEW j \in 1 .. len + 1, i < j
        PROVE  longer[i].index < longer[j].index
    <3>0. i \in 1 .. len
      BY <1>3, <2>4
    <3>1. i \in 1 .. len /\ longer[i].index \in 0 .. k - 1
      BY <1>2, <2>1, <3>0
    <3>2. CASE j \in 1 .. len
      BY <1>2, <2>1, <2>4, <3>1, <3>2
    <3>3. CASE j = len + 1
      BY <1>1, <2>1, <3>1, <3>3
    <3>4. QED
      BY <2>2, <3>2, <3>3
  <2>5. ASSUME NEW m \in 1 .. k + 1, entries[m].type = "COMPUTE"
        PROVE  \E j \in 1 .. len + 1 : longer[j] = entries[m]
    <3>1. CASE m \in 1 .. k
      <4>1. PICK j \in 1 .. len : list[j] = entries[m]
        BY <1>2, <2>5, <3>1
      <4>2. j \in 1 .. len + 1 /\ longer[j] = entries[m]
        BY <1>3, <2>1, <4>1
      <4>3. QED
        BY <4>2
    <3>2. CASE m = k + 1
      <4>1. len + 1 \in 1 .. len + 1
        BY <1>3
      <4>2. QED
        BY <2>1, <2>e, <3>2, <4>1
    <3>3. QED
      BY <1>4, <3>1, <3>2
  <2>6. k = (k + 1) - 1
    BY <1>1
  <2>7. ShadersOf(entries, k + 1, longer)
    BY <2>1, <2>3, <2>4, <2>5, <2>6 DEF ShadersOf, Increasing
  <2>8. QED
    BY <1>5, <2>7 DEF longer, entry
<1>6. CASE entry.type # "COMPUTE"
  <2>1. \A j \in 1 .. len : list[j].index \in 0 .. (k + 1) - 1
    BY <1>1, <1>2
  <2>2. ASSUME NEW m \in 1 .. k + 1, entries[m].type = "COMPUTE"
        PROVE  \E j \in 1 .. len : list[j] = entries[m]
    BY <1>2, <1>4, <1>6, <2>2
  <2>3. ShadersOf(entries, k + 1, list)
    BY <1>2, <2>1, <2>2 DEF ShadersOf, Increasing
  <2>4. QED
    BY <1>6, <2>3
<1>7. QED
  BY <1>5, <1>6

LEMMA ShadersFold ==
  ASSUME NEW n \in Nat, NEW entries \in [1 .. n -> Entry], \A i \in 1 .. n : entries[i].index = i - 1
  PROVE  ShadersOf(entries, n,
           FoldLeft(LAMBDA shaders, module :
                      IF module.type = "COMPUTE" THEN Append(shaders, module) ELSE shaders,
                    <<>>, entries))
<1> DEFINE step == [x \in Seq(Entry) \X Entry |->
                      IF x[2].type = "COMPUTE" THEN Append(x[1], x[2]) ELSE x[1]]
           Folds(g) == g = [s \in SUBSET (1 .. n) |->
                              IF s = {} THEN <<>>
                              ELSE LET x == Max(s)
                                   IN  IF entries[x].type = "COMPUTE"
                                       THEN Append(g[s \ {x}], entries[x]) ELSE g[s \ {x}]]
           list == FoldLeft(LAMBDA shaders, module :
                              IF module.type = "COMPUTE" THEN Append(shaders, module) ELSE shaders,
                            <<>>, entries)
<1>1. \E g : Folds(g)
  <2>1. step \in [Seq(Entry) \X Entry -> Seq(Entry)] /\ <<>> \in Seq(Entry)
    <3>1. \A x \in Seq(Entry) \X Entry :
            (IF x[2].type = "COMPUTE" THEN Append(x[1], x[2]) ELSE x[1]) \in Seq(Entry)
      BY AppendProperties
    <3>2. QED
      BY <3>1
  <2>2. PICK g \in [SUBSET (1 .. n) -> Seq(Entry)] : Folding(step, <<>>, entries, n, g)
    <3> HIDE DEF step
    <3>1. QED
      BY <2>1, FoldExists
  <2>3. ASSUME NEW s \in SUBSET (1 .. n)
        PROVE  Iterated(step, <<>>, entries, s, g) =
                 IF s = {} THEN <<>>
                 ELSE LET x == Max(s)
                      IN  IF entries[x].type = "COMPUTE"
                          THEN Append(g[s \ {x}], entries[x]) ELSE g[s \ {x}]
    <3>1. CASE s = {}
      BY <3>1 DEF Iterated
    <3>2. CASE s # {}
      <4>1. Max(s) \in s
        BY <3>2, MaxInSet
      <4>2. g[s \ {Max(s)}] \in Seq(Entry) /\ entries[Max(s)] \in Entry
        BY <4>1
      <4>3. step[<<g[s \ {Max(s)}], entries[Max(s)]>>] =
              IF entries[Max(s)].type = "COMPUTE"
              THEN Append(g[s \ {Max(s)}], entries[Max(s)]) ELSE g[s \ {Max(s)}]
        BY <4>2
      <4>4. QED
        BY <3>2, <4>3 DEF Iterated
    <3>3. QED
      BY <3>1, <3>2
  <2>4. Folds(g)
    BY <2>2, <2>3 DEF Folding
  <2>5. QED
    BY <2>4
<1>2. PICK g : Folds(g) /\ list = g[1 .. n]
  <2>1. DOMAIN entries = 1 .. n
    OBVIOUS
  <2>2. QED
    BY <1>1, <2>1 DEF FoldLeft, MapThenFoldSet
<1>3. g[1 .. 0] = <<>>
  <2>1. 1 .. 0 = {} /\ {} \in SUBSET (1 .. n)
    OBVIOUS
  <2>2. QED
    BY <1>2, <2>1
<1>4. ASSUME NEW k \in 0 .. n - 1
      PROVE  g[1 .. k + 1] = IF entries[k + 1].type = "COMPUTE"
                             THEN Append(g[1 .. k], entries[k + 1]) ELSE g[1 .. k]
  <2> DEFINE s == 1 .. k + 1
  <2>1. s \in SUBSET (1 .. n) /\ s # {} /\ Max(s) = k + 1 /\ s \ {k + 1} = 1 .. k
    BY PrefixLemma
  <2> HIDE DEF s
  <2>2. g[s] = IF entries[k + 1].type = "COMPUTE"
               THEN Append(g[1 .. k], entries[k + 1]) ELSE g[1 .. k]
    BY <1>2, <2>1
  <2>3. QED
    BY <2>2 DEF s
<1> HIDE DEF Folds, step
<1> DEFINE S == {k \in Nat : k <= n => ShadersOf(entries, k, g[1 .. k])}
<1>5. 0 \in S
  <2>1. ShadersOf(entries, 0, <<>>)
    BY DEF ShadersOf, Increasing
  <2>2. QED
    BY <1>3, <2>1
<1>6. ASSUME NEW k \in Nat, k \in S PROVE k + 1 \in S
  <2>1. SUFFICES ASSUME k + 1 <= n PROVE ShadersOf(entries, k + 1, g[1 .. k + 1])
    OBVIOUS
  <2>2. k \in 0 .. n - 1 /\ k + 1 \in 1 .. n /\ ShadersOf(entries, k, g[1 .. k])
    BY <1>6, <2>1
  <2>3. entries[k + 1].index = k
    BY <2>2
  <2>4. QED
    BY <1>4, <2>2, <2>3, ShadersStep
<1> HIDE DEF S, list
<1>7. n \in S
  BY <1>5, <1>6, SetInduction
<1>8. ShadersOf(entries, n, list)
  BY <1>2, <1>7 DEF S
<1>9. QED
  BY <1>8 DEF list

LEMMA ShadersLemma ==
  ASSUME ToolInv, program \in Tools
  PROVE  /\ Len(file.modules) \in Nat
         /\ ParsedModules(file) \in [1 .. Len(file.modules) -> Entry]
         /\ \A i \in 1 .. Len(file.modules) :
              /\ ParsedModules(file)[i].index = i - 1
              /\ ParsedModules(file)[i].type = file.modules[i].type
              /\ ParsedModules(file)[i].name = file.modules[i].name
         /\ ShadersOf(ParsedModules(file), Len(file.modules), ShaderModules(file))
<1> DEFINE n == Len(file.modules)
           entries == ParsedModules(file)
           Module == [type : STRING, shader : STRING, text : STRING, name : STRING, utf8 : BOOLEAN]
<1>1. file.modules \in Seq(Module)
  BY FileLemma DEF IsFile
<1> HIDE DEF Module
<1>2. n \in Nat /\ \A i \in 1 .. n : file.modules[i] \in Module
  BY <1>1
<1> HIDE DEF n
<1>3. ASSUME NEW i \in 1 .. n
      PROVE  /\ entries[i].index = i - 1 /\ entries[i] \in Entry
             /\ entries[i].type = file.modules[i].type /\ entries[i].name = file.modules[i].name
  <2> DEFINE module == file.modules[i]
             available == module.text # ""
             kind == shaderType(module)
  <2>1. module \in [type : STRING, shader : STRING, text : STRING, name : STRING, utf8 : BOOLEAN]
    BY <1>2 DEF Module
  <2>2. kind \in {"None"} \cup STRING /\ available \in BOOLEAN
    <3>1. kind = "None" \/ kind = module.shader
      BY DEF shaderType
    <3>2. kind \in {"None"} \cup STRING
      <4>1. module.shader \in STRING
        BY <2>1
      <4> HIDE DEF kind, module
      <4>2. QED
        BY <3>1, <4>1
    <3>3. QED
      BY <3>2
  <2>3. entries[i] = [index |-> i - 1, type |-> module.type, name |-> module.name,
                      shaderType |-> kind, codeAvailable |-> available]
    BY DEF ParsedModules, n
  <2> HIDE DEF entries, module, available, kind
  <2>4. i - 1 \in Nat /\ module.type \in STRING /\ module.name \in STRING
    BY <1>2, <2>1
  <2>5. QED
    BY <2>2, <2>3, <2>4 DEF Entry, module
<1>4. entries \in [1 .. n -> Entry]
  <2>1. entries = [i \in 1 .. n |-> entries[i]]
    BY DEF ParsedModules, n
  <2> HIDE DEF entries
  <2>2. QED
    BY <1>3, <2>1
<1>5. ShaderModules(file) =
        FoldLeft(LAMBDA shaders, module :
                   IF module.type = "COMPUTE" THEN Append(shaders, module) ELSE shaders,
                 <<>>, entries)
  BY DEF ShaderModules
<1> HIDE DEF entries
<1>6. ShadersOf(entries, n, ShaderModules(file))
  BY <1>2, <1>3, <1>4, <1>5, ShadersFold
<1>7. QED
  BY <1>2, <1>3, <1>4, <1>6 DEF entries, n

--------------------------------------------------------------------------------
\* The size of a buffer, as far as it could be multiplied, is the product.
LEMMA BufferLemma ==
  ASSUME NEW n \in Nat, NEW shape \in [1 .. n -> Int], NEW size \in bufferSize(shape)
  PROVE  size = Exact(shape, 1)
<1> DEFINE times(product, dim) == UNION {checkedMul(p, dim) : p \in product}
           step == [x \in (SUBSET Int) \X Int |-> times(x[1], x[2])]
           Folds(g) == g = [s \in SUBSET (1 .. n) |->
                              IF s = {} THEN {1}
                              ELSE LET x == Max(s) IN times(g[s \ {x}], shape[x])]
<1>1. ASSUME NEW p \in Int, NEW dim \in Int PROVE checkedMul(p, dim) \subseteq {p * dim}
  BY DEF checkedMul
<1>2. \E g : Folds(g)
  <2>1. step \in [(SUBSET Int) \X Int -> SUBSET Int] /\ {1} \in SUBSET Int
    <3>1. ASSUME NEW product \in SUBSET Int, NEW dim \in Int PROVE times(product, dim) \in SUBSET Int
      <4>1. \A p \in product : p * dim \in Int
        OBVIOUS
      <4>2. QED
        BY <1>1, <4>1
    <3> HIDE DEF times
    <3>2. QED
      BY <3>1
  <2>2. PICK g \in [SUBSET (1 .. n) -> SUBSET Int] : Folding(step, {1}, shape, n, g)
    <3> HIDE DEF step
    <3>1. QED
      BY <2>1, FoldExists
  <2> HIDE DEF times
  <2>3. ASSUME NEW s \in SUBSET (1 .. n)
        PROVE  Iterated(step, {1}, shape, s, g) =
                 IF s = {} THEN {1} ELSE LET x == Max(s) IN times(g[s \ {x}], shape[x])
    <3>1. CASE s = {}
      BY <3>1 DEF Iterated
    <3>2. CASE s # {}
      <4>1. Max(s) \in s
        BY <3>2, MaxInSet
      <4>2. g[s \ {Max(s)}] \in SUBSET Int /\ shape[Max(s)] \in Int
        BY <4>1
      <4>3. step[<<g[s \ {Max(s)}], shape[Max(s)]>>] = times(g[s \ {Max(s)}], shape[Max(s)])
        BY <4>2
      <4>4. QED
        BY <3>2, <4>3 DEF Iterated
    <3>3. QED
      BY <3>1, <3>2
  <2>4. Folds(g)
    BY <2>2, <2>3 DEF Folding
  <2>5. QED
    BY <2>4
<1>3. PICK g : Folds(g) /\ size \in g[1 .. n]
  <2>1. DOMAIN shape = 1 .. n
    OBVIOUS
  <2>2. size \in FoldLeft(times, {1}, shape)
    BY DEF bufferSize
  <2>3. QED
    BY <1>2, <2>1, <2>2 DEF FoldLeft, MapThenFoldSet
<1>4. g[1 .. 0] = {1}
  <2>1. 1 .. 0 = {} /\ {} \in SUBSET (1 .. n)
    OBVIOUS
  <2>2. QED
    BY <1>3, <2>1
<1>5. ASSUME NEW k \in 0 .. n - 1 PROVE g[1 .. k + 1] = times(g[1 .. k], shape[k + 1])
  <2> DEFINE s == 1 .. k + 1
  <2>1. s \in SUBSET (1 .. n) /\ s # {} /\ Max(s) = k + 1 /\ s \ {k + 1} = 1 .. k
    BY PrefixLemma
  <2> HIDE DEF s, times
  <2>2. g[s] = times(g[1 .. k], shape[k + 1])
    BY <1>3, <2>1
  <2>3. QED
    BY <2>2 DEF s
<1> HIDE DEF Folds, step
<1>6. PICK e : ExactSteps(shape, 1, n, e)
  BY ExactFold
<1>7. e[1 .. 0] = 1 /\ \A k \in 0 .. n - 1 : e[1 .. k + 1] = e[1 .. k] * shape[k + 1]
  BY <1>6 DEF ExactSteps
<1> DEFINE S == {k \in Nat : k <= n => e[1 .. k] \in Int /\ g[1 .. k] \subseteq {e[1 .. k]}}
<1>8. 0 \in S
  BY <1>4, <1>7
<1>9. ASSUME NEW k \in Nat, k \in S PROVE k + 1 \in S
  <2>1. SUFFICES ASSUME k + 1 <= n
                 PROVE  e[1 .. k + 1] \in Int /\ g[1 .. k + 1] \subseteq {e[1 .. k + 1]}
    OBVIOUS
  <2> DEFINE exact == e[1 .. k]  sofar == g[1 .. k]  dim == shape[k + 1]
  <2>2. k \in 0 .. n - 1 /\ exact \in Int /\ sofar \subseteq {exact} /\ dim \in Int
    BY <1>9, <2>1
  <2>3. e[1 .. k + 1] = exact * dim /\ g[1 .. k + 1] = times(sofar, dim)
    BY <1>5, <1>7, <2>2
  <2> HIDE DEF exact, sofar, dim
  <2>4. exact * dim \in Int
    BY <2>2
  <2>5. \A p \in sofar : checkedMul(p, dim) \subseteq {exact * dim}
    BY <1>1, <2>2
  <2>6. times(sofar, dim) \subseteq {exact * dim}
    BY <2>5
  <2>7. QED
    BY <2>3, <2>4, <2>6
<1> HIDE DEF S
<1>10. n \in S
  BY <1>8, <1>9, SetInduction
<1>11. QED
  BY <1>3, <1>6, <1>10 DEF S, ExactSteps

\* What a slot of the inputs or the outputs declares.
BoundTo(resource, uid, isSrc, r) ==
  /\ r.uid = uid /\ r.kind \in {"tensor", "buffer"} /\ r.isSrc = isSrc
  /\ r.kind = "buffer" => r.size = Exact(resource.shape, 1)

LEMMA DeclaredLemma ==
  ASSUME ToolInv, program \in Tools, NEW kind, NEW category, NEW i, NEW slot, slot.mrtIndex \in Nat,
         NEW r \in Declared(file, kind, category, i, slot)
  PROVE  /\ file.resources[slot.mrtIndex + 1].category = category
         /\ BoundTo(file.resources[slot.mrtIndex + 1], <<kind, i>>, kind = "input", r)
<1> DEFINE resource == file.resources[slot.mrtIndex + 1]
           shape == resource.shape
           src == kind = "input"
           uid == <<kind, i>>
<1>1. /\ InBounds(slot.mrtIndex, file.resources) /\ resource.category = category
      /\ r \in DeclaredResource(uid, src, resource)
  BY DEF Declared
<1>2. shape \in Seq(Int)
  <2> DEFINE T == [category : STRING, descriptorType : STRING, format : STRING, shape : Seq(Int)]
  <2>1. file.resources \in Seq(T)
    BY FileLemma DEF IsFile
  <2> HIDE DEF T
  <2>2. resource \in T
    BY <1>1, <2>1, IndexLemma DEF InBounds
  <2> HIDE DEF resource
  <2>3. QED
    BY <2>2 DEF T
<1>3. Len(shape) \in Nat /\ shape \in [1 .. Len(shape) -> Int]
  <2> HIDE DEF shape
  <2>1. QED
    BY <1>2
<1>4. \A size \in bufferSize(shape) : size = Exact(shape, 1)
  BY <1>3, BufferLemma
<1> HIDE DEF src, uid
<1>5. /\ r.uid = uid /\ r.kind \in {"tensor", "buffer"} /\ r.isSrc = src
      /\ r.kind = "buffer" => r.size = Exact(shape, 1)
  <2> DEFINE dims == [d \in DOMAIN shape |-> IF shape[d] = Int64Min THEN -1 ELSE shape[d]]
  <2>1. CASE resource.descriptorType = "VK_DESCRIPTOR_TYPE_TENSOR_ARM"
    <3>1. r = [kind |-> "tensor", uid |-> uid, isSrc |-> src, format |-> resource.format, dims |-> dims]
      BY <1>1, <2>1 DEF DeclaredResource
    <3> HIDE DEF dims, resource
    <3>2. QED
      BY <3>1
  <2>2. CASE resource.descriptorType \in
               {"VK_DESCRIPTOR_TYPE_STORAGE_BUFFER", "VK_DESCRIPTOR_TYPE_UNIFORM_BUFFER"}
    <3>1. PICK size \in bufferSize(shape) :
            r = [kind |-> "buffer", uid |-> uid, isSrc |-> src, size |-> size]
      BY <1>1, <2>2 DEF DeclaredResource
    <3> HIDE DEF resource, shape
    <3>2. QED
      BY <1>4, <3>1
  <2>3. CASE resource.descriptorType \notin
               {"VK_DESCRIPTOR_TYPE_TENSOR_ARM", "VK_DESCRIPTOR_TYPE_STORAGE_BUFFER",
                "VK_DESCRIPTOR_TYPE_UNIFORM_BUFFER"}
    BY <1>1, <2>3 DEF DeclaredResource
  <2>4. QED
    BY <2>1, <2>2, <2>3
<1>6. QED
  BY <1>1, <1>5 DEF BoundTo, src, uid

--------------------------------------------------------------------------------
\* Lists that are set up by their elements.
IsList(s, n) == s = [i \in 1 .. n |-> s[i]]

Joined(s, t, m, n) ==
  /\ IsList(s \o t, m + n) /\ Len(s \o t) = m + n
  /\ \A i \in 1 .. m : (s \o t)[i] = s[i]
  /\ \A i \in 1 .. n : (s \o t)[m + i] = t[i]

LEMMA ConcatLemma ==
  ASSUME NEW m \in Nat, NEW n \in Nat, NEW s, NEW t, IsList(s, m), IsList(t, n)
  PROVE  Joined(s, t, m, n)
<1> DEFINE S == {s[i] : i \in 1 .. m} \cup {t[i] : i \in 1 .. n}
<1>1. s \in [1 .. m -> S] /\ t \in [1 .. n -> S]
  BY DEF IsList
<1> HIDE DEF S
<1>2. s \in Seq(S) /\ t \in Seq(S) /\ Len(s) = m /\ Len(t) = n
  BY <1>1
<1>3. /\ s \o t \in Seq(S) /\ Len(s \o t) = m + n
      /\ \A i \in 1 .. m + n : (s \o t)[i] = IF i <= m THEN s[i] ELSE t[i - m]
  BY <1>2, ConcatProperties
<1>4. s \o t = [i \in 1 .. m + n |-> (s \o t)[i]]
  <2> DEFINE both == s \o t
  <2>1. both \in Seq(S) /\ Len(both) = m + n
    BY <1>3
  <2> HIDE DEF both
  <2>2. both = [i \in 1 .. m + n |-> both[i]]
    BY <2>1
  <2>3. QED
    BY <2>2 DEF both
<1>5. \A i \in 1 .. m : i \in 1 .. m + n /\ i <= m
  OBVIOUS
<1>6. \A i \in 1 .. n : m + i \in 1 .. m + n /\ ~(m + i <= m) /\ (m + i) - m = i
  OBVIOUS
<1>7. QED
  BY <1>2, <1>3, <1>4, <1>5, <1>6 DEF IsList, Joined

\* The scenario template, entry by entry: the graph, what the inputs and the
\* outputs are bound to, the shaders.
Inputs == Len(file.inputs)
Outputs == Len(file.outputs)
Shaders == ShaderModules(file)
SlotOf(i) == IF i <= Inputs THEN file.inputs[i] ELSE file.outputs[i - Inputs]
ResourceOf(i) == file.resources[SlotOf(i).mrtIndex + 1]
UidOf(i) == IF i <= Inputs THEN <<"input", i - 1>> ELSE <<"output", i - Inputs - 1>>

Laid(scenario) ==
  /\ IsList(scenario.resources, 1 + (Inputs + Outputs) + Len(Shaders))
  /\ Len(scenario.resources) = 1 + (Inputs + Outputs) + Len(Shaders)
  /\ scenario.resources[1] = [kind |-> "graph", uid |-> <<"vgf_graph">>]
  /\ \A i \in 1 .. Inputs + Outputs :
       /\ BoundTo(ResourceOf(i), UidOf(i), i <= Inputs, scenario.resources[1 + i])
       /\ ResourceOf(i).category = IF i <= Inputs THEN "INPUT" ELSE "OUTPUT"
       /\ scenario.bindings[i].uid = UidOf(i)
  /\ \A j \in 1 .. Len(Shaders) :
       LET r == scenario.resources[1 + (Inputs + Outputs) + j]
       IN  r.kind = "shader" /\ r.uid = <<"shader", Shaders[j].index>> /\ r.module = Shaders[j].index
  /\ IsList(scenario.bindings, Inputs + Outputs)
  /\ Len(scenario.bindings) = Inputs + Outputs
  /\ Elements(scenario.substitutions) =
       {[shaderRef |-> <<"shader", Shaders[j].index>>, target |-> Shaders[j].name] :
          j \in 1 .. Len(Shaders)}
  /\ scenario.graphRef = <<"vgf_graph">>
  /\ \/ scenario.boundaries = <<>>
     \/ scenario.boundaries = <<{}, {<<"output", i - 1>> : i \in 1 .. Outputs}>>

LEMMA SlotsLemma ==
  ASSUME ToolInv, program \in Tools
  PROVE  /\ Inputs \in Nat /\ Outputs \in Nat
         /\ \A i \in 1 .. Inputs : file.inputs[i].mrtIndex \in Nat
         /\ \A i \in 1 .. Outputs : file.outputs[i].mrtIndex \in Nat
         /\ IsList(file.inputs, Inputs) /\ IsList(file.outputs, Outputs)
<1> DEFINE T == [binding : Nat, mrtIndex : Nat]
           inputs == file.inputs
           outputs == file.outputs
<1>1. inputs \in Seq(T) /\ outputs \in Seq(T)
  BY FileLemma DEF IsFile
<1> HIDE DEF inputs, outputs, T
<1>2. /\ Len(inputs) \in Nat /\ \A i \in 1 .. Len(inputs) : inputs[i] \in T
      /\ Len(outputs) \in Nat /\ \A i \in 1 .. Len(outputs) : outputs[i] \in T
  BY <1>1
<1>3. inputs = [i \in 1 .. Len(inputs) |-> inputs[i]] /\ outputs = [i \in 1 .. Len(outputs) |-> outputs[i]]
  BY <1>1
<1>4. QED
  BY <1>2, <1>3 DEF inputs, outputs, T, IsList, Inputs, Outputs

\* What all slots declare.
DeclaredAll ==
  DeclaredSlots(file, "input", "INPUT", file.inputs) \o DeclaredSlots(file, "output", "OUTPUT", file.outputs)

LEMMA DeclaredAllLemma ==
  ASSUME ToolInv, program \in Tools, {} \notin Elements(DeclaredAll)
  PROVE  /\ Len(DeclaredAll) = Inputs + Outputs
         /\ \A i \in 1 .. Inputs + Outputs :
              /\ BoundTo(ResourceOf(i), UidOf(i), i <= Inputs, Member(DeclaredAll[i]))
              /\ ResourceOf(i).category = IF i <= Inputs THEN "INPUT" ELSE "OUTPUT"
<1> DEFINE ins == DeclaredSlots(file, "input", "INPUT", file.inputs)
           outs == DeclaredSlots(file, "output", "OUTPUT", file.outputs)
           all == ins \o outs
<1>1. Inputs \in Nat /\ Outputs \in Nat
  BY SlotsLemma
<1>2. /\ IsList(ins, Inputs) /\ IsList(outs, Outputs)
      /\ \A i \in 1 .. Inputs : ins[i] = Declared(file, "input", "INPUT", i - 1, file.inputs[i])
      /\ \A i \in 1 .. Outputs : outs[i] = Declared(file, "output", "OUTPUT", i - 1, file.outputs[i])
  BY DEF DeclaredSlots, IsList, Inputs, Outputs
<1> HIDE DEF ins, outs
<1>3. /\ Len(all) = Inputs + Outputs
      /\ \A i \in 1 .. Inputs : all[i] = ins[i]
      /\ \A i \in 1 .. Outputs : all[Inputs + i] = outs[i]
  <2>1. IsList(ins, Inputs) /\ IsList(outs, Outputs)
    BY <1>2
  <2>2. Joined(ins, outs, Inputs, Outputs)
    BY <1>1, <2>1, ConcatLemma
  <2>3. QED
    BY <2>2 DEF Joined
<1>4. all = DeclaredAll
  BY DEF ins, outs, DeclaredAll
<1> HIDE DEF all
<1>5. ASSUME NEW i \in 1 .. Inputs + Outputs
      PROVE  Member(all[i]) \in all[i]
  <2>1. all[i] # {}
    BY <1>3, <1>4 DEF Elements
  <2>2. QED
    BY <2>1, Zenon DEF Member
<1>6. ASSUME NEW i \in 1 .. Inputs + Outputs
      PROVE  /\ BoundTo(ResourceOf(i), UidOf(i), i <= Inputs, Member(all[i]))
             /\ ResourceOf(i).category = IF i <= Inputs THEN "INPUT" ELSE "OUTPUT"
  <2> DEFINE r == Member(all[i])
  <2>1. CASE i <= Inputs
    <3>1. i \in 1 .. Inputs
      BY <1>1, <2>1
    <3> DEFINE slot == file.inputs[i]
    <3>2. r \in Declared(file, "input", "INPUT", i - 1, slot) /\ slot.mrtIndex \in Nat
      BY <1>2, <1>3, <1>5, <3>1, SlotsLemma
    <3> HIDE DEF r, slot
    <3>3. /\ file.resources[slot.mrtIndex + 1].category = "INPUT"
          /\ BoundTo(file.resources[slot.mrtIndex + 1], <<"input", i - 1>>, "input" = "input", r)
      BY <3>2, DeclaredLemma
    <3>4. SlotOf(i) = slot /\ UidOf(i) = <<"input", i - 1>>
      BY <2>1 DEF SlotOf, UidOf, slot
    <3>5. ResourceOf(i) = file.resources[slot.mrtIndex + 1]
      BY <3>4 DEF ResourceOf
    <3>6. BoundTo(ResourceOf(i), UidOf(i), i <= Inputs, r)
      BY <2>1, <3>3, <3>4, <3>5 DEF BoundTo
    <3>7. QED
      BY <2>1, <3>3, <3>5, <3>6 DEF r
  <2>2. CASE ~(i <= Inputs)
    <3>1. i - Inputs \in 1 .. Outputs /\ Inputs + (i - Inputs) = i
      BY <1>1, <2>2
    <3> DEFINE slot == file.outputs[i - Inputs]
    <3>2. r \in Declared(file, "output", "OUTPUT", i - Inputs - 1, slot) /\ slot.mrtIndex \in Nat
      BY <1>2, <1>3, <1>5, <3>1, SlotsLemma
    <3> HIDE DEF r, slot
    <3>3. /\ file.resources[slot.mrtIndex + 1].category = "OUTPUT"
          /\ BoundTo(file.resources[slot.mrtIndex + 1], <<"output", i - Inputs - 1>>, "output" = "input", r)
      BY <3>2, DeclaredLemma
    <3>4. SlotOf(i) = slot /\ UidOf(i) = <<"output", i - Inputs - 1>>
      BY <2>2 DEF SlotOf, UidOf, slot
    <3>5. ResourceOf(i) = file.resources[slot.mrtIndex + 1]
      BY <3>4 DEF ResourceOf
    <3>6. BoundTo(ResourceOf(i), UidOf(i), i <= Inputs, r)
      BY <2>2, <3>3, <3>4, <3>5 DEF BoundTo
    <3>7. QED
      BY <2>2, <3>3, <3>5, <3>6 DEF r
  <2>3. QED
    BY <2>1, <2>2
<1>7. QED
  BY <1>3, <1>4, <1>6

LEMMA ShaderListLemma ==
  ASSUME ToolInv, program \in Tools
  PROVE  /\ Len(Shaders) \in Nat
         /\ \A j \in 1 .. Len(Shaders) : Shaders[j].index \in Nat
         /\ \A i, j \in 1 .. Len(Shaders) : Shaders[i].index = Shaders[j].index => i = j
<1>1. /\ Shaders \in Seq(Entry)
      /\ \A i, j \in 1 .. Len(Shaders) : i < j => Shaders[i].index < Shaders[j].index
  BY ShadersLemma DEF ShadersOf, Increasing, Shaders
<1>2. Len(Shaders) \in Nat /\ \A j \in 1 .. Len(Shaders) : Shaders[j] \in Entry
  BY <1>1
<1>3. \A j \in 1 .. Len(Shaders) : Shaders[j].index \in Nat
  BY <1>2 DEF Entry
<1>4. ASSUME NEW i \in 1 .. Len(Shaders), NEW j \in 1 .. Len(Shaders),
             Shaders[i].index = Shaders[j].index
      PROVE  i = j
  <2>1. ~(i < j) /\ ~(j < i)
    BY <1>1, <1>3, <1>4
  <2>2. QED
    BY <1>2, <2>1
<1>5. QED
  BY <1>2, <1>3, <1>4

LEMMA ScenarioLemma ==
  ASSUME ToolInv, MadeInv, program \in Tools, command.option = "scenario", NEW scenario \in made
  PROVE  Laid(scenario)
<1> DEFINE graph == <<[kind |-> "graph", uid |-> <<"vgf_graph">>]>>
           members == [i \in 1 .. Len(DeclaredAll) |-> Member(DeclaredAll[i])]
           shaders == ShaderResources(file)
           ins == Bindings("input", file.inputs)
           outs == Bindings("output", file.outputs)
           b == Inputs + Outputs
<1>1. made = Printed(getScenario(file, command.boundaries),
                     {module \in Elements(file.modules) : module.type = "COMPUTE"})
  BY DEF MadeInv, Outcome
<1>2. scenario \in getScenario(file, command.boundaries)
  BY <1>1 DEF Printed
<1>3. /\ {} \notin Elements(DeclaredAll)
      /\ scenario = [resources |-> graph \o members \o shaders,
                     bindings |-> ins \o outs,
                     substitutions |-> ShaderSubstitutions(file),
                     graphRef |-> <<"vgf_graph">>,
                     boundaries |-> Boundaries(file.inputs, file.outputs, command.boundaries)]
  BY <1>2 DEF getScenario, DeclaredAll
<1>4. /\ scenario.resources = graph \o members \o shaders
      /\ scenario.bindings = ins \o outs
      /\ scenario.substitutions = ShaderSubstitutions(file)
      /\ scenario.graphRef = <<"vgf_graph">>
      /\ scenario.boundaries = Boundaries(file.inputs, file.outputs, command.boundaries)
  <2> DEFINE r == graph \o members \o shaders
             k == ins \o outs
             s == ShaderSubstitutions(file)
             d == Boundaries(file.inputs, file.outputs, command.boundaries)
  <2>1. scenario = [resources |-> r, bindings |-> k, substitutions |-> s,
                    graphRef |-> <<"vgf_graph">>, boundaries |-> d]
    BY <1>3
  <2> HIDE DEF r, k, s, d
  <2>2. /\ scenario.resources = r /\ scenario.bindings = k /\ scenario.substitutions = s
        /\ scenario.graphRef = <<"vgf_graph">> /\ scenario.boundaries = d
    BY <2>1
  <2>3. QED
    BY <2>2 DEF r, k, s, d
<1>5. Inputs \in Nat /\ Outputs \in Nat /\ Len(Shaders) \in Nat
  BY SlotsLemma, ShaderListLemma
<1>6. Len(DeclaredAll) = b
  BY <1>3, DeclaredAllLemma
<1>7. /\ IsList(graph, 1) /\ graph[1] = [kind |-> "graph", uid |-> <<"vgf_graph">>]
      /\ IsList(members, b) /\ \A i \in 1 .. b : members[i] = Member(DeclaredAll[i])
  BY <1>6 DEF IsList
<1>8. /\ IsList(shaders, Len(Shaders))
      /\ \A j \in 1 .. Len(Shaders) : /\ shaders[j].kind = "shader"
                                       /\ shaders[j].uid = <<"shader", Shaders[j].index>>
                                       /\ shaders[j].module = Shaders[j].index
  <2>1. shaders = [j \in 1 .. Len(Shaders) |->
                     [kind |-> "shader", uid |-> ShaderUid(Shaders, j), module |-> Shaders[j].index,
                      type |-> Shaders[j].shaderType]]
    BY DEF ShaderResources, Shaders
  <2> HIDE DEF shaders
  <2>2. QED
    BY <2>1 DEF IsList, ShaderUid
<1>9. /\ IsList(ins, Inputs) /\ IsList(outs, Outputs)
      /\ \A i \in 1 .. Inputs : ins[i].uid = <<"input", i - 1>>
      /\ \A i \in 1 .. Outputs : outs[i].uid = <<"output", i - 1>>
  <2>1. /\ ins = [i \in 1 .. Inputs |->
                    [uid |-> <<"input", i - 1>>, id |-> file.inputs[i].binding, set |-> 0]]
        /\ outs = [i \in 1 .. Outputs |->
                     [uid |-> <<"output", i - 1>>, id |-> file.outputs[i].binding, set |-> 0]]
    BY DEF Bindings, Inputs, Outputs
  <2> HIDE DEF ins, outs
  <2>2. QED
    BY <2>1 DEF IsList
<1>10. b \in Nat /\ 1 + b \in Nat
  BY <1>5
<1> HIDE DEF graph, members, shaders, ins, outs, b
<1>11. Joined(graph, members, 1, b)
  BY <1>7, <1>10, ConcatLemma
<1>12. Joined(graph \o members, shaders, 1 + b, Len(Shaders))
  <2>1. IsList(graph \o members, 1 + b)
    BY <1>11 DEF Joined
  <2>2. QED
    BY <1>5, <1>8, <1>10, <2>1, ConcatLemma
<1>13. Joined(ins, outs, Inputs, Outputs)
  BY <1>5, <1>9, ConcatLemma
<1>14. /\ IsList(scenario.resources, 1 + b + Len(Shaders))
       /\ Len(scenario.resources) = 1 + b + Len(Shaders)
       /\ \A j \in 1 .. Len(Shaders) : scenario.resources[1 + b + j] = shaders[j]
       /\ \A i \in 1 .. 1 + b : scenario.resources[i] = (graph \o members)[i]
  BY <1>4, <1>12 DEF Joined
<1>15. scenario.resources[1] = [kind |-> "graph", uid |-> <<"vgf_graph">>]
  <2>1. 1 \in 1 .. 1 + b /\ 1 \in 1 .. 1
    BY <1>10
  <2>2. (graph \o members)[1] = graph[1]
    BY <1>11, <2>1 DEF Joined
  <2>3. QED
    BY <1>7, <1>14, <2>1, <2>2
<1>16. \A i \in 1 .. b : scenario.resources[1 + i] = Member(DeclaredAll[i])
  <2>1. \A i \in 1 .. b : 1 + i \in 1 .. 1 + b
    BY <1>10
  <2>2. \A i \in 1 .. b : (graph \o members)[1 + i] = members[i]
    BY <1>11 DEF Joined
  <2>3. QED
    BY <1>7, <1>14, <2>1, <2>2
<1>17. /\ IsList(scenario.bindings, b) /\ Len(scenario.bindings) = b
       /\ \A i \in 1 .. b : scenario.bindings[i].uid = UidOf(i)
  <2>1. IsList(scenario.bindings, b) /\ Len(scenario.bindings) = b
    BY <1>4, <1>13 DEF Joined, b
  <2>2. ASSUME NEW i \in 1 .. b PROVE scenario.bindings[i].uid = UidOf(i)
    <3>1. CASE i <= Inputs
      <4>1. i \in 1 .. Inputs
        BY <1>5, <3>1 DEF b
      <4>2. scenario.bindings[i] = ins[i]
        BY <1>4, <1>13, <4>1 DEF Joined
      <4>3. ins[i].uid = <<"input", i - 1>> /\ UidOf(i) = <<"input", i - 1>>
        BY <1>9, <3>1, <4>1 DEF UidOf
      <4>4. QED
        BY <4>2, <4>3
    <3>2. CASE ~(i <= Inputs)
      <4>1. i - Inputs \in 1 .. Outputs /\ Inputs + (i - Inputs) = i
        BY <1>5, <3>2 DEF b
      <4>2. scenario.bindings[i] = outs[i - Inputs]
        BY <1>4, <1>13, <4>1 DEF Joined
      <4>3. /\ outs[i - Inputs].uid = <<"output", i - Inputs - 1>>
            /\ UidOf(i) = <<"output", i - Inputs - 1>>
        BY <1>9, <3>2, <4>1 DEF UidOf
      <4>4. QED
        BY <4>2, <4>3
    <3>3. QED
      BY <3>1, <3>2
  <2>3. QED
    BY <2>1, <2>2
<1>18. \A i \in 1 .. b :
         /\ BoundTo(ResourceOf(i), UidOf(i), i <= Inputs, scenario.resources[1 + i])
         /\ ResourceOf(i).category = IF i <= Inputs THEN "INPUT" ELSE "OUTPUT"
  BY <1>3, <1>16, DeclaredAllLemma DEF b
<1>19. ASSUME NEW j \in 1 .. Len(Shaders)
       PROVE  LET r == scenario.resources[1 + b + j]
              IN  r.kind = "shader" /\ r.uid = <<"shader", Shaders[j].index>> /\ r.module = Shaders[j].index
  <2>1. scenario.resources[1 + b + j] = shaders[j]
    BY <1>14
  <2>2. QED
    BY <1>8, <2>1
<1>20. Elements(scenario.substitutions) =
         {[shaderRef |-> <<"shader", Shaders[j].index>>, target |-> Shaders[j].name] :
            j \in 1 .. Len(Shaders)}
  <2> DEFINE s == [j \in 1 .. Len(Shaders) |->
                     [shaderRef |-> <<"shader", Shaders[j].index>>, target |-> Shaders[j].name]]
  <2>1. scenario.substitutions = s
    BY <1>4 DEF ShaderSubstitutions, Shaders
  <2>2. Len(s) = Len(Shaders)
    BY <1>5
  <2>3. QED
    BY <2>1, <2>2 DEF Elements
<1>21. \/ scenario.boundaries = <<>>
       \/ scenario.boundaries = <<{}, {<<"output", i - 1>> : i \in 1 .. Outputs}>>
  BY <1>4 DEF Boundaries, Outputs
<1>22. QED
  BY <1>4, <1>14, <1>15, <1>17, <1>18, <1>19, <1>20, <1>21 DEF Laid, b

\* The uids differ: by their words, and by their numbers.
LEMMA UidLemma ==
  ASSUME Inputs \in Nat, Outputs \in Nat
  PROVE  /\ \A i, j \in 1 .. Inputs + Outputs : UidOf(i) = UidOf(j) => i = j
         /\ \A i \in 1 .. Inputs + Outputs : UidOf(i) # <<"vgf_graph">> /\ \A n : UidOf(i) # <<"shader", n>>
         /\ \A n : <<"shader", n>> # <<"vgf_graph">>
<1>1. \A a, b, c, d : <<a, b>> = <<c, d>> => a = c /\ b = d
  OBVIOUS
<1>2. \A a, b, c : <<a, b>> # <<c>>
  OBVIOUS
<1>3. ASSUME NEW i \in 1 .. Inputs + Outputs, NEW j \in 1 .. Inputs + Outputs, UidOf(i) = UidOf(j)
      PROVE  i = j
  <2>1. CASE i <= Inputs /\ j <= Inputs
    <3>1. <<"input", i - 1>> = <<"input", j - 1>>
      BY <1>3, <2>1 DEF UidOf
    <3>2. QED
      BY <1>1, <3>1
  <2>2. CASE ~(i <= Inputs) /\ ~(j <= Inputs)
    <3>1. <<"output", i - Inputs - 1>> = <<"output", j - Inputs - 1>>
      BY <1>3, <2>2 DEF UidOf
    <3>2. i - Inputs - 1 = j - Inputs - 1
      BY <1>1, <3>1
    <3>3. QED
      BY <3>2
  <2>3. CASE i <= Inputs /\ ~(j <= Inputs)
    <3>1. <<"input", i - 1>> = <<"output", j - Inputs - 1>>
      BY <1>3, <2>3 DEF UidOf
    <3>2. QED
      BY <1>1, <3>1
  <2>4. CASE ~(i <= Inputs) /\ j <= Inputs
    <3>1. <<"output", i - Inputs - 1>> = <<"input", j - 1>>
      BY <1>3, <2>4 DEF UidOf
    <3>2. QED
      BY <1>1, <3>1
  <2>5. QED
    BY <2>1, <2>2, <2>3, <2>4
<1>4. ASSUME NEW i \in 1 .. Inputs + Outputs
      PROVE  UidOf(i) # <<"vgf_graph">> /\ \A n : UidOf(i) # <<"shader", n>>
  <2>1. \E w \in {"input", "output"}, n \in Int : UidOf(i) = <<w, n>>
    BY DEF UidOf
  <2>2. PICK w \in {"input", "output"}, n \in Int : UidOf(i) = <<w, n>>
    BY <2>1
  <2>3. w # "shader"
    OBVIOUS
  <2>4. QED
    BY <1>1, <1>2, <2>2, <2>3
<1>5. QED
  BY <1>2, <1>3, <1>4

\* Every entry of the template is one of three kinds.
LEMMA EntriesLemma ==
  ASSUME NEW b \in Nat, NEW s \in Nat, NEW k \in 1 .. 1 + b + s
  PROVE  k = 1 \/ (\E i \in 1 .. b : k = 1 + i) \/ (\E j \in 1 .. s : k = 1 + b + j)
<1>1. CASE k \in 2 .. 1 + b
  <2>1. k - 1 \in 1 .. b /\ k = 1 + (k - 1)
    BY <1>1
  <2>2. QED
    BY <2>1
<1>2. CASE k \in 2 + b .. 1 + b + s
  <2>1. k - (1 + b) \in 1 .. s /\ k = 1 + b + (k - (1 + b))
    BY <1>2
  <2>2. QED
    BY <2>1
<1>3. QED
  BY <1>1, <1>2

\* A template has as many uids as entries, and each of its entries is
\* found again by its uid.
Told(scenario) ==
  /\ \A i, j \in 1 .. 1 + (Inputs + Outputs) + Len(Shaders) :
       scenario.resources[i].uid = scenario.resources[j].uid => i = j
  /\ Elements(scenario.resources) =
       {scenario.resources[k] : k \in 1 .. 1 + (Inputs + Outputs) + Len(Shaders)}
  /\ \A i \in 1 .. Inputs + Outputs :
       (CHOOSE r \in Elements(scenario.resources) : r.uid = UidOf(i)) = scenario.resources[1 + i]
  /\ \A r \in Elements(scenario.resources) :
       r.kind \in {"tensor", "buffer"} => \E i \in 1 .. Inputs + Outputs : r = scenario.resources[1 + i]
  /\ \A r \in Elements(scenario.resources), j \in 1 .. Len(Shaders) :
       r.uid = <<"shader", Shaders[j].index>> => r.module = Shaders[j].index

LEMMA ToldLemma ==
  ASSUME ToolInv, program \in Tools, NEW scenario, Laid(scenario)
  PROVE  Told(scenario)
<1> DEFINE b == Inputs + Outputs
           s == Len(Shaders)
           uid(k) == scenario.resources[k].uid
<1>1. Inputs \in Nat /\ Outputs \in Nat /\ b \in Nat /\ s \in Nat
  BY SlotsLemma, ShaderListLemma
<1>2. /\ scenario.resources[1].kind = "graph" /\ uid(1) = <<"vgf_graph">>
      /\ \A i \in 1 .. b : uid(1 + i) = UidOf(i)
      /\ \A j \in 1 .. s : /\ scenario.resources[1 + b + j].kind = "shader"
                           /\ uid(1 + b + j) = <<"shader", Shaders[j].index>>
                           /\ scenario.resources[1 + b + j].module = Shaders[j].index
  <2>1. scenario.resources[1].kind = "graph" /\ uid(1) = <<"vgf_graph">>
    BY DEF Laid
  <2>2. ASSUME NEW i \in 1 .. b PROVE uid(1 + i) = UidOf(i)
    BY DEF Laid, BoundTo
  <2>3. ASSUME NEW j \in 1 .. s
        PROVE  /\ scenario.resources[1 + b + j].kind = "shader"
               /\ uid(1 + b + j) = <<"shader", Shaders[j].index>>
               /\ scenario.resources[1 + b + j].module = Shaders[j].index
    BY DEF Laid
  <2>4. QED
    BY <2>1, <2>2, <2>3
<1>3. Len(scenario.resources) = 1 + b + s
  BY DEF Laid
<1>4. /\ \A i, j \in 1 .. b : UidOf(i) = UidOf(j) => i = j
      /\ \A i \in 1 .. b : UidOf(i) # <<"vgf_graph">> /\ \A n : UidOf(i) # <<"shader", n>>
      /\ \A n : <<"shader", n>> # <<"vgf_graph">>
  BY <1>1, UidLemma
<1>5. \A i, j \in 1 .. s : Shaders[i].index = Shaders[j].index => i = j
  BY ShaderListLemma
<1>6. \A m, n : <<"shader", m>> = <<"shader", n>> => m = n
  OBVIOUS
<1> HIDE DEF b, s, uid
<1>7. ASSUME NEW i \in 1 .. 1 + b + s, NEW j \in 1 .. 1 + b + s, uid(i) = uid(j)
      PROVE  i = j
  <2>1. \A k \in 1 .. 1 + b + s :
          k = 1 \/ (\E n \in 1 .. b : k = 1 + n) \/ (\E n \in 1 .. s : k = 1 + b + n)
    BY <1>1, EntriesLemma
  <2>2. CASE i = 1
    BY <1>2, <1>4, <1>7, <2>1, <2>2
  <2>3. ASSUME NEW n \in 1 .. b, i = 1 + n PROVE i = j
    BY <1>2, <1>4, <1>7, <2>1, <2>3
  <2>4. ASSUME NEW n \in 1 .. s, i = 1 + b + n PROVE i = j
    BY <1>2, <1>4, <1>5, <1>6, <1>7, <2>1, <2>4
  <2>5. QED
    BY <2>1, <2>2, <2>3, <2>4
<1>8. Elements(scenario.resources) = {scenario.resources[k] : k \in 1 .. 1 + b + s}
  BY <1>3 DEF Elements
<1>9. ASSUME NEW i \in 1 .. b
      PROVE  (CHOOSE r \in Elements(scenario.resources) : r.uid = UidOf(i)) = scenario.resources[1 + i]
  <2> DEFINE r == scenario.resources[1 + i]
             all == Elements(scenario.resources)
  <2>1. 1 + i \in 1 .. 1 + b + s
    BY <1>1
  <2>2. r \in all /\ r.uid = UidOf(i)
    BY <1>2, <1>8, <2>1 DEF uid
  <2>3. ASSUME NEW q \in all, q.uid = UidOf(i) PROVE q = r
    <3>1. PICK k \in 1 .. 1 + b + s : q = scenario.resources[k]
      BY <1>8
    <3>2. uid(k) = uid(1 + i)
      BY <2>2, <2>3, <3>1 DEF uid
    <3>3. QED
      BY <1>7, <2>1, <3>1, <3>2
  <2> HIDE DEF r, all
  <2>4. (CHOOSE q \in all : q.uid = UidOf(i)) = r
    BY <2>2, <2>3
  <2>5. QED
    BY <2>4 DEF r, all
<1>10. ASSUME NEW r \in Elements(scenario.resources), r.kind \in {"tensor", "buffer"}
       PROVE  \E i \in 1 .. b : r = scenario.resources[1 + i]
  <2>1. PICK k \in 1 .. 1 + b + s : r = scenario.resources[k]
    BY <1>8
  <2>2. k # 1 /\ ~\E j \in 1 .. s : k = 1 + b + j
    BY <1>2, <1>10, <2>1
  <2>3. QED
    BY <1>1, <2>1, <2>2, EntriesLemma
<1>11. ASSUME NEW r \in Elements(scenario.resources), NEW j \in 1 .. s,
              r.uid = <<"shader", Shaders[j].index>>
       PROVE  r.module = Shaders[j].index
  <2>1. PICK k \in 1 .. 1 + b + s : r = scenario.resources[k]
    BY <1>8
  <2>2. 1 + b + j \in 1 .. 1 + b + s
    BY <1>1
  <2>3. uid(k) = uid(1 + b + j)
    BY <1>2, <1>11, <2>1 DEF uid
  <2>4. k = 1 + b + j
    BY <1>7, <2>2, <2>3
  <2>5. QED
    BY <1>2, <2>1, <2>4
<1>12. QED
  BY <1>7, <1>8, <1>9, <1>10, <1>11 DEF Told, b, s, uid

\* Bound is what the inputs and the outputs declare, and nothing else.
LEMMA ClosedLemma ==
  ASSUME ToolInv, program \in Tools, NEW scenario, Laid(scenario)
  PROVE  /\ Distinct(scenario.resources) /\ Distinct(scenario.bindings)
         /\ Uids(scenario.bindings) =
              {resource.uid : resource \in {r \in Elements(scenario.resources) : r.kind \in {"tensor", "buffer"}}}
         /\ UNION Elements(scenario.boundaries) \subseteq Uids(scenario.resources)
         /\ {s.shaderRef : s \in Elements(scenario.substitutions)} \cup {scenario.graphRef}
              \subseteq Uids(scenario.resources)
<1> DEFINE b == Inputs + Outputs
           n == 1 + b + Len(Shaders)
           resources == scenario.resources
           bindings == scenario.bindings
<1>1. Inputs \in Nat /\ Outputs \in Nat /\ b \in Nat /\ Len(Shaders) \in Nat /\ n \in Nat
  BY SlotsLemma, ShaderListLemma
<1>2. Told(scenario)
  BY ToldLemma
<1>3. DOMAIN resources = 1 .. n /\ Len(resources) = n /\ DOMAIN bindings = 1 .. b /\ Len(bindings) = b
  BY DEF Laid, IsList
<1>4. /\ \A i \in 1 .. b : bindings[i].uid = UidOf(i) /\ resources[1 + i].uid = UidOf(i)
                           /\ resources[1 + i].kind \in {"tensor", "buffer"}
      /\ resources[1].uid = <<"vgf_graph">>
      /\ \A j \in 1 .. Len(Shaders) : resources[1 + b + j].uid = <<"shader", Shaders[j].index>>
  <2>1. resources[1].uid = <<"vgf_graph">>
    BY DEF Laid
  <2>2. ASSUME NEW i \in 1 .. b
        PROVE  /\ bindings[i].uid = UidOf(i) /\ resources[1 + i].uid = UidOf(i)
               /\ resources[1 + i].kind \in {"tensor", "buffer"}
    BY DEF Laid, BoundTo
  <2>3. ASSUME NEW j \in 1 .. Len(Shaders)
        PROVE  resources[1 + b + j].uid = <<"shader", Shaders[j].index>>
    BY DEF Laid
  <2>4. QED
    BY <2>1, <2>2, <2>3
<1>5. Uids(resources) = {resources[k].uid : k \in 1 .. n} /\ Uids(bindings) = {UidOf(i) : i \in 1 .. b}
  BY <1>3, <1>4 DEF Uids
<1>6. /\ 1 \in 1 .. n
      /\ \A i \in 1 .. b : 1 + i \in 1 .. n
      /\ \A j \in 1 .. Len(Shaders) : 1 + b + j \in 1 .. n
  BY <1>1
<1>7. Distinct(resources)
  <2>1. \A i, j \in 1 .. n : resources[i].uid = resources[j].uid => i = j
    BY <1>2 DEF Told
  <2> HIDE DEF n, resources
  <2>2. QED
    BY <1>1, <1>3, <2>1, DistinctLemma
<1>8. Distinct(bindings)
  <2>1. \A i, j \in 1 .. b : bindings[i].uid = bindings[j].uid => i = j
    BY <1>1, <1>4, UidLemma
  <2> HIDE DEF b, bindings
  <2>2. QED
    BY <1>1, <1>3, <2>1, DistinctLemma
<1>9. Elements(resources) = {resources[k] : k \in 1 .. n}
  BY <1>2 DEF Told
<1>10. \A r \in Elements(resources) : r.kind \in {"tensor", "buffer"} => \E i \in 1 .. b : r = resources[1 + i]
  BY <1>2 DEF Told
<1> HIDE DEF b, n, resources, bindings
<1>11. Uids(bindings) = {r.uid : r \in {q \in Elements(resources) : q.kind \in {"tensor", "buffer"}}}
  <2> DEFINE bound == {q \in Elements(resources) : q.kind \in {"tensor", "buffer"}}
  <2>1. ASSUME NEW i \in 1 .. b PROVE resources[1 + i] \in bound /\ resources[1 + i].uid = UidOf(i)
    BY <1>4, <1>6, <1>9
  <2>2. \A r \in bound : \E i \in 1 .. b : r = resources[1 + i]
    BY <1>10
  <2> HIDE DEF bound
  <2>3. {r.uid : r \in bound} = {UidOf(i) : i \in 1 .. b}
    BY <2>1, <2>2
  <2>4. QED
    BY <1>5, <2>3 DEF bound
<1>12. UNION Elements(scenario.boundaries) \subseteq Uids(resources)
  <2>1. CASE scenario.boundaries = <<>>
    BY <2>1 DEF Elements
  <2>2. CASE scenario.boundaries = <<{}, {<<"output", i - 1>> : i \in 1 .. Outputs}>>
    <3> DEFINE outs == {<<"output", i - 1>> : i \in 1 .. Outputs}
    <3>1. ASSUME NEW i \in 1 .. Outputs PROVE <<"output", i - 1>> \in Uids(resources)
      <4>1. Inputs + i \in 1 .. b /\ ~(Inputs + i <= Inputs) /\ (Inputs + i) - Inputs - 1 = i - 1
        BY <1>1 DEF b
      <4>2. UidOf(Inputs + i) = <<"output", i - 1>>
        BY <4>1 DEF UidOf
      <4>3. QED
        BY <1>4, <1>5, <1>6, <4>1, <4>2
    <3>2. outs \subseteq Uids(resources)
      BY <3>1
    <3> HIDE DEF outs
    <3>3. Elements(<<{}, outs>>) = {{}, outs}
      BY DEF Elements
    <3>4. Elements(scenario.boundaries) = {{}, outs}
      BY <2>2, <3>3 DEF outs
    <3>5. UNION {{}, outs} = outs
      OBVIOUS
    <3>6. QED
      BY <3>2, <3>4, <3>5
  <2>3. QED
    BY <2>1, <2>2 DEF Laid
<1>13. {s.shaderRef : s \in Elements(scenario.substitutions)} \cup {scenario.graphRef} \subseteq Uids(resources)
  <2>1. scenario.graphRef \in Uids(resources)
    BY <1>4, <1>5, <1>6 DEF Laid
  <2>2. ASSUME NEW s \in Elements(scenario.substitutions) PROVE s.shaderRef \in Uids(resources)
    <3>1. PICK j \in 1 .. Len(Shaders) :
            s = [shaderRef |-> <<"shader", Shaders[j].index>>, target |-> Shaders[j].name]
      BY <2>2 DEF Laid
    <3>2. s.shaderRef = <<"shader", Shaders[j].index>>
      BY <3>1
    <3>3. QED
      BY <1>4, <1>5, <1>6, <3>2
  <2>3. QED
    BY <2>1, <2>2
<1>14. QED
  BY <1>7, <1>8, <1>11, <1>12, <1>13 DEF resources, bindings

\* What a slot is bound to is of its direction, and a buffer of its size.
LEMMA DirectionsLemma ==
  ASSUME ToolInv, program \in Tools, NEW scenario, Laid(scenario), NEW i \in 1 .. Inputs + Outputs
  PROVE  LET slots == file.inputs \o file.outputs
             bound == CHOOSE r \in Elements(scenario.resources) : r.uid = scenario.bindings[i].uid
             resource == file.resources[slots[i].mrtIndex + 1]
         IN  /\ bound.isSrc <=> i <= Len(file.inputs)
             /\ resource.category = IF bound.isSrc THEN "INPUT" ELSE "OUTPUT"
             /\ bound.kind = "buffer" => bound.size = Exact(resource.shape, 1)
<1> DEFINE slots == file.inputs \o file.outputs
           bound == CHOOSE r \in Elements(scenario.resources) : r.uid = scenario.bindings[i].uid
           resource == file.resources[slots[i].mrtIndex + 1]
           isSrc == i <= Inputs
<1>1. Inputs \in Nat /\ Outputs \in Nat /\ IsList(file.inputs, Inputs) /\ IsList(file.outputs, Outputs)
  BY SlotsLemma
<1>2. Joined(file.inputs, file.outputs, Inputs, Outputs)
  BY <1>1, ConcatLemma
<1>3. slots[i] = SlotOf(i)
  <2>1. CASE i <= Inputs
    <3>1. i \in 1 .. Inputs
      BY <1>1, <2>1
    <3>2. QED
      BY <1>2, <2>1, <3>1 DEF Joined, SlotOf
  <2>2. CASE ~(i <= Inputs)
    <3>1. i - Inputs \in 1 .. Outputs /\ Inputs + (i - Inputs) = i
      BY <1>1, <2>2
    <3>2. QED
      BY <1>2, <2>2, <3>1 DEF Joined, SlotOf
  <2>3. QED
    BY <2>1, <2>2
<1>4. resource = ResourceOf(i)
  BY <1>3 DEF ResourceOf
<1>5. bound = scenario.resources[1 + i]
  <2>1. scenario.bindings[i].uid = UidOf(i)
    BY DEF Laid
  <2>2. (CHOOSE r \in Elements(scenario.resources) : r.uid = UidOf(i)) = scenario.resources[1 + i]
    BY ToldLemma DEF Told
  <2>3. QED
    BY <2>1, <2>2
<1>6. /\ BoundTo(ResourceOf(i), UidOf(i), isSrc, scenario.resources[1 + i])
      /\ ResourceOf(i).category = IF isSrc THEN "INPUT" ELSE "OUTPUT"
  BY DEF Laid
<1> HIDE DEF resource, bound, isSrc
<1>7. /\ bound.isSrc = isSrc
      /\ resource.category = IF isSrc THEN "INPUT" ELSE "OUTPUT"
      /\ bound.kind = "buffer" => bound.size = Exact(resource.shape, 1)
  BY <1>4, <1>5, <1>6 DEF BoundTo
<1>8. isSrc <=> i <= Len(file.inputs)
  BY DEF isSrc, Inputs
<1>9. /\ bound.isSrc <=> i <= Len(file.inputs)
      /\ resource.category = IF bound.isSrc THEN "INPUT" ELSE "OUTPUT"
      /\ bound.kind = "buffer" => bound.size = Exact(resource.shape, 1)
  BY <1>7, <1>8
<1>10. QED
  BY <1>9 DEF bound, resource

\* The second boundary waits for the outputs.
LEMMA BoundaryLemma ==
  ASSUME ToolInv, program \in Tools, NEW scenario, Laid(scenario), scenario.boundaries # <<>>
  PROVE  scenario.boundaries[2] =
           {r.uid : r \in {q \in Elements(scenario.resources) :
                             q.kind \in {"tensor", "buffer"} /\ ~q.isSrc}}
<1> DEFINE outs == {<<"output", i - 1>> : i \in 1 .. Outputs}
           b == Inputs + Outputs
           bound == {q \in Elements(scenario.resources) : q.kind \in {"tensor", "buffer"} /\ ~q.isSrc}
<1>1. Inputs \in Nat /\ Outputs \in Nat /\ b \in Nat /\ Len(Shaders) \in Nat
  BY SlotsLemma, ShaderListLemma
<1>2. /\ Elements(scenario.resources) = {scenario.resources[k] : k \in 1 .. 1 + b + Len(Shaders)}
      /\ \A r \in Elements(scenario.resources) :
           r.kind \in {"tensor", "buffer"} => \E i \in 1 .. b : r = scenario.resources[1 + i]
  BY ToldLemma DEF Told
<1>3. ASSUME NEW i \in 1 .. b
      PROVE  /\ scenario.resources[1 + i].uid = UidOf(i)
             /\ scenario.resources[1 + i].kind \in {"tensor", "buffer"}
             /\ scenario.resources[1 + i].isSrc = (i <= Inputs)
  BY DEF Laid, BoundTo
<1>4. scenario.boundaries[2] = outs
  <2>1. scenario.boundaries = <<{}, outs>>
    BY DEF Laid
  <2> HIDE DEF outs
  <2>2. QED
    BY <2>1
<1>5. ASSUME NEW i \in 1 .. Outputs
      PROVE  /\ scenario.resources[1 + (Inputs + i)] \in bound
             /\ scenario.resources[1 + (Inputs + i)].uid = <<"output", i - 1>>
  <2>1. /\ Inputs + i \in 1 .. b /\ ~(Inputs + i <= Inputs) /\ (Inputs + i) - Inputs - 1 = i - 1
        /\ 1 + (Inputs + i) \in 1 .. 1 + b + Len(Shaders)
    BY <1>1
  <2>2. UidOf(Inputs + i) = <<"output", i - 1>>
    BY <2>1 DEF UidOf
  <2>3. QED
    BY <1>2, <1>3, <2>1, <2>2
<1>6. ASSUME NEW r \in bound PROVE \E i \in 1 .. Outputs : r.uid = <<"output", i - 1>>
  <2>1. PICK i \in 1 .. b : r = scenario.resources[1 + i]
    BY <1>2
  <2>2. ~(i <= Inputs) /\ r.uid = UidOf(i)
    BY <1>3, <2>1
  <2>3. i - Inputs \in 1 .. Outputs /\ UidOf(i) = <<"output", (i - Inputs) - 1>>
    BY <1>1, <2>2 DEF UidOf
  <2>4. QED
    BY <2>2, <2>3
<1> HIDE DEF bound
<1>7. outs = {r.uid : r \in bound}
  BY <1>5, <1>6
<1>8. QED
  BY <1>4, <1>7 DEF bound

LEMMA ConsistentLemma == ToolInv /\ MadeInv => ScenarioConsistent
<1> SUFFICES ASSUME ToolInv, MadeInv PROVE ScenarioClosed /\ ScenarioDirections /\ BufferSizeExact
  BY DEF ScenarioConsistent
<1>1. ASSUME NEW scenario \in Made("scenario")
      PROVE  Laid(scenario) /\ program \in Tools
  BY <1>1, ScenarioLemma DEF Made
<1>2. ScenarioClosed
  BY <1>1, ClosedLemma DEF ScenarioClosed
<1>3. \A scenario \in Made("scenario") : DOMAIN scenario.bindings = 1 .. Inputs + Outputs
  BY <1>1 DEF Laid, IsList
<1>4. ScenarioDirections
  <2>1. SUFFICES ASSUME NEW scenario \in Made("scenario")
                 PROVE  /\ \A i \in 1 .. Inputs + Outputs :
                             LET slots == file.inputs \o file.outputs
                                 bound == CHOOSE r \in Elements(scenario.resources) :
                                            r.uid = scenario.bindings[i].uid
                             IN  /\ bound.isSrc <=> i <= Len(file.inputs)
                                 /\ file.resources[slots[i].mrtIndex + 1].category =
                                      IF bound.isSrc THEN "INPUT" ELSE "OUTPUT"
                        /\ scenario.boundaries # <<>> =>
                             scenario.boundaries[2] =
                               {r.uid : r \in {q \in Elements(scenario.resources) :
                                                 q.kind \in {"tensor", "buffer"} /\ ~q.isSrc}}
    BY <1>3, Zenon DEF ScenarioDirections
  <2>2. Laid(scenario) /\ program \in Tools
    BY <1>1
  <2>3. ASSUME NEW i \in 1 .. Inputs + Outputs
        PROVE  LET slots == file.inputs \o file.outputs
                   bound == CHOOSE r \in Elements(scenario.resources) :
                              r.uid = scenario.bindings[i].uid
               IN  /\ bound.isSrc <=> i <= Len(file.inputs)
                   /\ file.resources[slots[i].mrtIndex + 1].category =
                        IF bound.isSrc THEN "INPUT" ELSE "OUTPUT"
    BY <2>2, DirectionsLemma
  <2>4. QED
    BY <2>2, <2>3, BoundaryLemma, Zenon
<1>5. BufferSizeExact
  <2>1. SUFFICES ASSUME NEW scenario \in Made("scenario"), NEW i \in 1 .. Inputs + Outputs
                 PROVE  LET slots == file.inputs \o file.outputs
                            bound == CHOOSE r \in Elements(scenario.resources) :
                                       r.uid = scenario.bindings[i].uid
                            shape == file.resources[slots[i].mrtIndex + 1].shape
                        IN  bound.kind = "buffer" => bound.size = Exact(shape, 1)
    BY <1>3, Zenon DEF BufferSizeExact
  <2>2. QED
    BY <1>1, DirectionsLemma
<1>6. QED
  BY <1>2, <1>4, <1>5

\* The substitution of a name leads to the module of that name.
LEMMA SegmentsLemma == ToolInv /\ MadeInv => SegmentsGetTheirShader
<1> DEFINE computes(i) == i \in DOMAIN file.modules /\ file.modules[i].type = "COMPUTE"
           shadersNamed(scenario, name) ==
             {r \in Elements(scenario.resources) :
                \E s \in Elements(scenario.substitutions) : s.target = name /\ s.shaderRef = r.uid}
<1> SUFFICES ASSUME ToolInv, MadeInv, NEW scenario \in Made("scenario"),
                    \A i, j \in DOMAIN file.modules :
                      computes(i) /\ computes(j) /\ file.modules[i].name = file.modules[j].name => i = j,
                    NEW segment \in Elements(file.segments), computes(segment.module + 1)
             PROVE  {r.module : r \in shadersNamed(scenario, file.modules[segment.module + 1].name)} =
                      {segment.module}
  BY Zenon DEF SegmentsGetTheirShader
<1>1. Laid(scenario) /\ Told(scenario) /\ program \in Tools
  BY ScenarioLemma, ToldLemma DEF Made
<1> DEFINE b == Inputs + Outputs
           m == segment.module
           name == file.modules[m + 1].name
           n == Len(file.modules)
           entries == ParsedModules(file)
<1>2. m \in Nat
  <2>1. PICK k \in 1 .. Len(file.segments) : segment = file.segments[k]
    BY DEF Elements
  <2>2. QED
    BY <1>1, <2>1, FileLemma DEF IsFile
<1>3. /\ n \in Nat /\ DOMAIN file.modules = 1 .. n
      /\ \A i \in 1 .. n : /\ entries[i].index = i - 1 /\ entries[i].type = file.modules[i].type
                           /\ entries[i].name = file.modules[i].name
      /\ ShadersOf(entries, n, Shaders)
  <2>1. DOMAIN file.modules = 1 .. n
    BY <1>1, FileLemma DEF IsFile
  <2>2. QED
    BY <1>1, <2>1, ShadersLemma DEF Shaders
<1> HIDE DEF entries, n
<1>4. ASSUME NEW j \in 1 .. Len(Shaders), Shaders[j].name = name PROVE Shaders[j].index = m
  <2> DEFINE i == Shaders[j].index + 1
  <2>1. /\ i \in 1 .. n /\ Shaders[j] = entries[i] /\ Shaders[j].type = "COMPUTE"
        /\ Shaders[j].index \in 0 .. n - 1
    <3>1. Shaders[j].index \in 0 .. n - 1 /\ Shaders[j] = entries[i] /\ Shaders[j].type = "COMPUTE"
      BY <1>3 DEF ShadersOf
    <3>2. QED
      BY <1>3, <3>1
  <2> HIDE DEF i
  <2>2. computes(i) /\ file.modules[i].name = name
    BY <1>3, <1>4, <2>1
  <2>3. i = m + 1
    BY <2>2
  <2>4. QED
    BY <1>2, <2>1, <2>3 DEF i
<1>5. PICK j \in 1 .. Len(Shaders) : Shaders[j] = entries[m + 1]
  BY <1>3 DEF ShadersOf
<1>6. m + 1 \in 1 .. n /\ Shaders[j].index = m /\ Shaders[j].name = name
  BY <1>2, <1>3, <1>5
<1>7. /\ Elements(scenario.substitutions) =
           {[shaderRef |-> <<"shader", Shaders[k].index>>, target |-> Shaders[k].name] :
              k \in 1 .. Len(Shaders)}
      /\ \A r \in Elements(scenario.resources), k \in 1 .. Len(Shaders) :
           r.uid = <<"shader", Shaders[k].index>> => r.module = Shaders[k].index
      /\ Elements(scenario.resources) = {scenario.resources[k] : k \in 1 .. 1 + b + Len(Shaders)}
  BY <1>1 DEF Laid, Told
<1> DEFINE named == shadersNamed(scenario, name)
<1>8. ASSUME NEW r \in named PROVE r.module = m
  <2>1. PICK s \in Elements(scenario.substitutions) : s.target = name /\ s.shaderRef = r.uid
    OBVIOUS
  <2>2. PICK k \in 1 .. Len(Shaders) :
          s = [shaderRef |-> <<"shader", Shaders[k].index>>, target |-> Shaders[k].name]
    BY <1>7
  <2>3. s.shaderRef = <<"shader", Shaders[k].index>> /\ s.target = Shaders[k].name
    BY <2>2
  <2>4. r \in Elements(scenario.resources)
    OBVIOUS
  <2> HIDE DEF named, shadersNamed, name, m
  <2>5. Shaders[k].index = m
    BY <1>4, <2>1, <2>3
  <2>6. QED
    BY <1>7, <2>1, <2>3, <2>4, <2>5
<1>9. \E r \in named : r.module = m
  <2> DEFINE r == scenario.resources[1 + b + j]
             s == [shaderRef |-> <<"shader", Shaders[j].index>>, target |-> Shaders[j].name]
  <2>1. r.uid = <<"shader", Shaders[j].index>> /\ r.module = Shaders[j].index
    BY <1>1 DEF Laid
  <2>2. s \in Elements(scenario.substitutions)
    BY <1>7
  <2>3. s.shaderRef = <<"shader", Shaders[j].index>> /\ s.target = Shaders[j].name
    OBVIOUS
  <2>4. r \in Elements(scenario.resources)
    <3>1. b \in Nat /\ Len(Shaders) \in Nat
      BY <1>1, SlotsLemma, ShaderListLemma
    <3> HIDE DEF b
    <3>2. 1 + b + j \in 1 .. 1 + b + Len(Shaders)
      BY <3>1
    <3>3. QED
      BY <1>7, <3>2
  <2> HIDE DEF r, s, m, name
  <2>5. s.shaderRef = r.uid /\ s.target = name
    BY <1>6, <2>1, <2>3
  <2>6. r \in named
    BY <2>2, <2>4, <2>5
  <2>7. QED
    BY <1>6, <2>1, <2>6
<1> HIDE DEF named, m
<1>10. {r.module : r \in named} = {m}
  BY <1>8, <1>9
<1>11. QED
  BY <1>10 DEF named, m

--------------------------------------------------------------------------------
\* All programs.
AllInv == OutputInv /\ ClientInv /\ ToolInv /\ MadeInv

LEMMA AllInvariant == ToolSpec => []AllInv
<1>1. ToolInit => AllInv
  BY InitInv, ClientInit, ToolInitInv DEF AllInv, MadeInv, ToolInit
<1>2. AllInv /\ [ToolNext]_toolVars => AllInv'
  <2> SUFFICES ASSUME AllInv, [ToolNext]_toolVars PROVE AllInv'
    OBVIOUS
  <2>1. OutputInv /\ program \in Encoders \cup Tools
    BY DEF AllInv, OutputInv, ProgramInv
  <2>2. OutputInv'
    BY <2>1, ToolStep, EncoderStep
  <2>3. program' = program
    BY DEF ToolNext, Compute, Act, WriteStep, ComputeOutput, ComputeFails, ComputeModel, OpenFails,
           Open, Refuse, Put, PutFaults, EndPuts, Close, WriteBytes, CallAgain, toolVars, outputVars
  <2>4. ClientInv'
    BY <2>1, <2>3, CapiStep, OwnPathStep DEF AllInv, ClientInv
  <2>5. ToolInv'
    BY <2>1, <2>3, ToolStepInv DEF AllInv, ToolInv
  <2>6. MadeInv'
    BY MadeStep DEF AllInv
  <2>7. QED
    BY <2>2, <2>4, <2>5, <2>6 DEF AllInv
<1>3. QED
  BY <1>1, <1>2, PTL DEF ToolSpec

\* writeOutput of vgf_updater sets its stream to throw and closes it before
\* it returns: when the program exits with success every byte that WriteTo
\* put is in the file, whatever the stream held back and wherever it failed.
THEOREM UpdaterWritesAll == ToolSpec => []UpdaterSuccessIsWhole
<1>1. AllInv => UpdaterSuccessIsWhole
  BY DEF AllInv, OutputInv
<1>2. QED
  BY <1>1, AllInvariant, PTL

\* WriteTo of the encoder releases each constant's block as it puts it, so
\* a client of the C API or of the Python module that calls again, after
\* any failure or after a success, is never told of a file that is whole.
THEOREM RetriesWriteShort == ToolSpec => []RetryNeverWhole
<1>1. AllInv => RetryNeverWhole
  BY DEF AllInv, OutputInv
<1>2. QED
  BY <1>1, AllInvariant, PTL

\* What says success looks at every put, not at the last flush: the C
\* function whose encoder has a constant that no earlier call released, and
\* writeOutputText of vgf_dump, whose stream throws, are short of the whole
\* file by no more than an ofstream's buffer.
THEOREM SuccessIsShortByTheBuffer == ToolSpec => []ShortOnlyByBuffer
<1>1. AllInv => ShortOnlyByBuffer
  BY DEF AllInv, ClientInv, ToolInv, ToolAnswered, ShortOnlyByBuffer, Tools
<1>2. QED
  BY <1>1, AllInvariant, PTL

\* vgf_updater compares its paths before it opens anything.  vgf_dump does
\* not: of code or of a constant that it reads from the file it truncated
\* it never writes the whole.
THEOREM OwnInputIsLeftOrLost == ToolSpec => []OwnInput
<1>1. AllInv => OwnInput
  <2> SUFFICES ASSUME AllInv, own PROVE OwnInput
    BY DEF OwnInput
  <2>1. program = "updater" => disk = Old
    BY DEF AllInv, ClientInv, OwnPathInv
  <2>2. program \in Encoders => mapped = FALSE
    BY DEF AllInv, OutputInv, ProgramInv
  <2>3. program \in Encoders \cup Tools
    BY DEF AllInv, OutputInv, ProgramInv
  <2>4. program \in Tools /\ answer = "true" /\ mapped /\ Whole => puts[Len(puts)].size = 0
    BY DEF AllInv, ToolInv, ToolAnswered
  <2>5. QED
    BY <2>1, <2>2, <2>3, <2>4 DEF OwnInput
<1>2. QED
  BY <1>1, AllInvariant, PTL

\* vgf_dump makes all of its output before it opens the file: an input that
\* makes it throw leaves the output as it was.
THEOREM FaultyInputIsHarmless == ToolSpec => []FaultyInputKeepsOutput
<1>1. AllInv => FaultyInputKeepsOutput
  BY DEF AllInv, ToolInv, ToolBytes, FaultyInputKeepsOutput, Tools
<1>2. QED
  BY <1>1, AllInvariant, PTL

\* The listing of a file and the commands that dump code agree on every
\* module: which kind of shader it has, and whether its code is there.
THEOREM ListingIsOfTheCode == ToolSpec => []CodeAsListed
<1>1. AllInv => CodeAsListed
  BY ListedLemma DEF AllInv
<1>2. QED
  BY <1>1, AllInvariant, PTL

\* The template of a scenario is closed and right: every uid it refers to is
\* declared once and every tensor and buffer bound once, what is a source is
\* an input of the file's table and what the second boundary waits for is
\* the rest, and a buffer's size is the product of its dimensions.
THEOREM TemplateIsConsistent == ToolSpec => []ScenarioConsistent
<1>1. AllInv => ScenarioConsistent
  BY ConsistentLemma DEF AllInv
<1>2. QED
  BY <1>1, AllInvariant, PTL

\* The substitutions of the template lead from a module's name to the shader
\* of that module, whichever of the modules are shaders, if no two of those
\* share a name.
THEOREM SubstitutionsFindTheShader == ToolSpec => []SegmentsGetTheirShader
<1>1. AllInv => SegmentsGetTheirShader
  BY SegmentsLemma DEF AllInv
<1>2. QED
  BY <1>1, AllInvariant, PTL

\* dumpNumpy takes the size of an item from the format, rounded up to a power
\* of two: of a constant that has the bytes its shape and format need, it
\* writes exactly those, or for the one format whose block is no power of
\* two, more than there are.
THEOREM NumpyTakesTheConstant == ToolSpec => []NumpyExact
<1>1. AllInv => NumpyExact
  BY NumpyLemma DEF AllInv
<1>2. QED
  BY <1>1, AllInvariant, PTL

--------------------------------------------------------------------------------
\* How many steps a call has before it, at most: what is made, of two puts
\* at most for vgf_dump, the opening, the puts, their end and the close.
CallStepsLeft ==
  CASE stage = "done" -> 0
    [] stage = "close" -> 1
    [] stage = "put" -> Len(puts) + 3 - next
    [] stage = "open" -> Len(puts) + 3
    [] stage = "compute" -> Len(puts) + 6

Stages == {"compute", "open", "put", "close", "done"}

PutsInv ==
  /\ stage \in Stages
  /\ Len(puts) \in Nat
  /\ next \in 1 .. Len(puts) + 1
  /\ stage \in {"compute", "open"} => next = 1

LEMMA StepsOf ==
  /\ stage = "done" => CallStepsLeft = 0
  /\ stage = "close" => CallStepsLeft = 1
  /\ stage = "put" => CallStepsLeft = Len(puts) + 3 - next
  /\ stage = "open" => CallStepsLeft = Len(puts) + 3
  /\ stage = "compute" => CallStepsLeft = Len(puts) + 6
BY DEF CallStepsLeft

LEMMA StepsOfNext ==
  /\ stage' = "done" => CallStepsLeft' = 0
  /\ stage' = "close" => CallStepsLeft' = 1
  /\ stage' = "put" => CallStepsLeft' = Len(puts') + 3 - next'
  /\ stage' = "open" => CallStepsLeft' = Len(puts') + 3
  /\ stage' = "compute" => CallStepsLeft' = Len(puts') + 6
BY DEF CallStepsLeft

LEMMA PutsInit == ToolInit => PutsInv
<1> SUFFICES ASSUME ToolInit PROVE PutsInv
  OBVIOUS
<1>1. PICK p \in Encoders \cup Tools : OutputInit(p)
  BY RunsAssumption DEF ToolInit
<1>2. Len(puts) \in Nat
  <2>1. puts \in Seq([size : Nat, checked : BOOLEAN, block : BOOLEAN]) \/ puts = <<>>
    BY <1>1, OutputAssumption DEF OutputInit
  <2>2. QED
    BY <2>1
<1>3. QED
  BY <1>1, <1>2 DEF OutputInit, PutsInv, Stages

\* A client's step is a new call; all others are steps of the running one.
LEMMA CallStep ==
  ASSUME PutsInv, [ToolNext]_toolVars
  PROVE  PutsInv' /\ (stage # "done" => toolVars' = toolVars \/ CallStepsLeft' < CallStepsLeft)
<1> USE StepsOf, StepsOfNext DEF PutsInv, Stages
<1>1. CASE Compute
  <2>1. /\ stage = "compute" /\ next' = next
        /\ \/ stage' = "done" /\ puts' = puts
           \/ stage' \in {"put", "open"} /\ Len(puts') \in 1 .. 2
    BY <1>1 DEF Compute, ComputeOutput, Answer
  <2>2. CASE stage' = "done" /\ puts' = puts
    BY <2>1, <2>2
  <2>3. CASE stage' \in {"put", "open"} /\ Len(puts') \in 1 .. 2
    <3>1. next = 1 /\ next' = 1 /\ CallStepsLeft = Len(puts) + 6
      BY <2>1
    <3>2. CallStepsLeft' \in {Len(puts') + 2, Len(puts') + 3}
      BY <2>3, <3>1
    <3>3. Len(puts') + 3 < Len(puts) + 6 /\ Len(puts') + 2 < Len(puts) + 6
      <4>1. \A m \in Nat, n \in 1 .. 2 : n + 3 < m + 6 /\ n + 2 < m + 6
        OBVIOUS
      <4>2. QED
        BY <2>3, <4>1
    <3>4. PutsInv'
      BY <2>3, <3>1
    <3>5. QED
      BY <3>1, <3>2, <3>3, <3>4
  <2>4. QED
    BY <2>1, <2>2, <2>3
<1>2. CASE ComputeFails \/ ComputeModel \/ OpenFails \/ Open \/ Refuse
  <2>1. /\ next' = next /\ puts' = puts
        /\ \/ stage = "compute" /\ stage' \in {"done", "put", "open"}
           \/ stage = "open" /\ stage' \in {"done", "put"}
           \/ stage = "put" /\ stage' = "done"
    BY <1>2 DEF ComputeFails, ComputeModel, OpenFails, Open, Refuse, Answer
  <2>2. QED
    BY <2>1
<1>3. CASE Put
  <2>1. /\ stage = "put" /\ next <= Len(puts) /\ next' = next + 1 /\ puts' = puts
        /\ stage' \in {"put", "done"}
    BY <1>3 DEF Put, Answer
  <2>2. QED
    BY <2>1
<1>4. CASE PutFaults \/ EndPuts
  <2>1. /\ stage = "put" /\ stage' \in {"done", "close"} /\ next' = next /\ puts' = puts
    BY <1>4 DEF PutFaults, EndPuts, Answer
  <2>2. QED
    BY <2>1
<1>5. CASE Close \/ WriteBytes
  <2>1. /\ stage = "close" /\ stage' = "done" /\ next' = next /\ puts' = puts
    BY <1>5 DEF Close, WriteBytes, Answer
  <2>2. QED
    BY <2>1
<1>6. CASE CallAgain
  <2>1. stage = "done" /\ stage' \in Stages /\ next' = 1 /\ puts' = puts
    BY <1>6 DEF CallAgain
  <2>2. QED
    BY <2>1
<1>7. CASE UNCHANGED toolVars
  BY <1>7 DEF toolVars, outputVars
<1>8. QED
  BY <1>1, <1>2, <1>3, <1>4, <1>5, <1>6, <1>7 DEF ToolNext, Act, WriteStep

\* Whatever a program writes, and wherever its stream fails, a call that has
\* begun takes no more than CallStepsLeft steps: each step meanwhile is its
\* own, and leaves it fewer.
THEOREM CallsAreFinite ==
  ToolSpec => /\ [](CallStepsLeft \in Nat /\ (CallStepsLeft = 0 <=> stage = "done"))
              /\ [][stage # "done" => CallStepsLeft' < CallStepsLeft]_toolVars
<1>1. PutsInv => CallStepsLeft \in Nat /\ (CallStepsLeft = 0 <=> stage = "done")
  BY StepsOf DEF PutsInv, Stages
<1>2. PutsInv /\ [ToolNext]_toolVars
      => PutsInv' /\ [stage # "done" => CallStepsLeft' < CallStepsLeft]_toolVars
  BY CallStep
<1>3. QED
  BY <1>1, <1>2, PutsInit, PTL DEF ToolSpec
================================================================================
