------------------------------ MODULE OutputFiles ------------------------------
(***************************************************************************)
(* The programs that write a file: a client of the C API                   *)
(* (mlsdk_encoder_write_to_file), a client of the Python module            *)
(* (Encoder.WriteTo), vgf_updater (writeOutput), vgf_dump with an output   *)
(* path (writeOutputText, writeOutputBinary), without one (std::cout), and *)
(* numpy::write.  They differ in which failures of the stream they look    *)
(* at, and when.                                                           *)
(*                                                                         *)
(* An ofstream holds back up to BufferSize bytes.  When it writes to the   *)
(* disk, while it is used or when it is closed, it may fail and get any    *)
(* part out; it has failed for good then.  A file is known by how many of  *)
(* its bytes are there.                                                    *)
(***************************************************************************)
EXTENDS Integers, Sequences

CONSTANTS
  BufferSize,
  EncoderPuts,   \* what WriteTo puts on a stream: [size, checked, block], a
                 \* size, whether the stream is looked at after it, and
                 \* whether it is a constant's block
  MaxCalls       \* bound: the calls of a client

\* A constant has data.
ASSUME OutputAssumption ==
  /\ BufferSize \in Nat /\ MaxCalls \in Nat
  /\ EncoderPuts \subseteq Seq([size : Nat, checked : BOOLEAN, block : BOOLEAN])
  /\ \A list \in EncoderPuts : \A i \in DOMAIN list : list[i].block => list[i].size > 0

VARIABLES
  program,
  stage,      \* "compute", "open", "put", "close" or "done"
  own,        \* the output path is the input
  mapped,     \* what is written is read from the mapped input meanwhile
  puts,       \* what the program puts on the stream
  next,       \* the one it puts next
  asked,      \* the bytes of those it has put
  stream,     \* [good, held], not failed and the bytes held back
  released,   \* the puts whose block WriteTo has cleared, and 0 when it has
              \* cleared the list of them
  fresh,      \* the call found every block
  inputGone,  \* the mapped input was truncated
  disk,       \* the bytes of the output on the disk, Old before it is opened
  answer,     \* of the last call: "true" is success or exit status 0
  calls

outputVars == <<program, stage, own, mapped, puts, next, asked, stream, released, fresh, inputGone,
                disk, answer, calls>>

Old == -1

Encoders == {"capi", "python", "updater"}
Tools == {"path", "stdout", "numpy"}   \* of vgf_dump

\* Of a call that has put all.
Whole == disk = asked

OutputInit(p) ==
  /\ program = p
  /\ stage = IF p = "capi" THEN "open" ELSE "compute"
  /\ puts \in IF p \in Encoders THEN EncoderPuts ELSE {<<>>}
  /\ next = 1
  /\ asked = 0
  /\ stream = [good |-> TRUE, held |-> 0]
  /\ released = {}
  /\ fresh = TRUE
  /\ inputGone = FALSE
  /\ disk = Old
  /\ answer = "none"
  /\ calls = 1

\* A return is missing.
AnswerBug(a) == answer' = a /\ UNCHANGED stage

Answer(a) == stage' = "done" /\ answer' = a

\* Only the C function answers false to a file it cannot open or write.
Failure == IF program = "capi" THEN "false" ELSE "threw"

--------------------------------------------------------------------------------
\* What is done before the output is opened: vgf_updater compares the paths
\* and encodes the model, a tool makes what it writes, Python checks that it
\* was given a stream.
ComputeFails ==
  /\ stage = "compute" /\ program \in Encoders
  /\ Answer("threw")
  /\ UNCHANGED <<program, own, mapped, puts, next, asked, stream, released, fresh, inputGone, disk, calls>>

\* The updater only looks whether its output exists.
OwnPathBug == FALSE

\* std::filesystem::equivalent.
OwnPath == program = "updater" /\ own

ComputeModel ==
  /\ stage = "compute" /\ program \in {"python", "updater"}
  /\ ~OwnPath
  /\ stage' = IF program = "python" THEN "put" ELSE "open"
  /\ UNCHANGED <<program, own, mapped, puts, next, asked, stream, released, fresh, inputGone, disk,
                 answer, calls>>

\* The file is opened before what goes into it is made.
BeforeOpenBug(made) == 0

BeforeOpen(made) == IF program = "stdout" /\ made # {} THEN 0 ELSE disk

\* A tool's output, {} if it threw.  The header of a NumPy file is a put of
\* its own.
ComputeOutput(made, headerSize) ==
  /\ stage = "compute" /\ program \in Tools
  /\ IF made = {}
     THEN Answer("threw") /\ UNCHANGED puts
     ELSE LET data == [size |-> CHOOSE size \in made : TRUE, checked |-> FALSE, block |-> FALSE]
          IN  /\ puts' = IF program = "numpy" THEN <<[data EXCEPT !.size = headerSize], data>>
                         ELSE <<data>>
              /\ stage' = IF program = "stdout" THEN "put" ELSE "open"
              /\ UNCHANGED answer
  /\ disk' = BeforeOpen(made)
  /\ UNCHANGED <<program, own, mapped, next, asked, stream, released, fresh, inputGone, calls>>

--------------------------------------------------------------------------------
OpenFails ==
  /\ stage = "open"
  /\ Answer(Failure)
  /\ UNCHANGED <<program, own, mapped, puts, next, asked, stream, released, fresh, inputGone, disk, calls>>

\* The file is truncated, whatever WriteTo is going to say.
Open ==
  /\ stage = "open"
  /\ stage' = "put"
  /\ disk' = 0
  /\ inputGone' = (own /\ mapped)
  /\ UNCHANGED <<program, own, mapped, puts, next, asked, stream, released, fresh, answer, calls>>

\* WriteTo returns false before it puts anything.
Refuse ==
  /\ stage = "put" /\ next = 1 /\ program \in Encoders
  /\ Answer(IF program = "updater" THEN "threw" ELSE "false")
  /\ UNCHANGED <<program, own, mapped, puts, next, asked, stream, released, fresh, inputGone, disk, calls>>

\* A stringstream takes everything.
Fits(size) == program = "python" \/ stream.held + size <= BufferSize

\* What of count bytes a failing stream gets out.
Broken(count) ==
  {[stream |-> [good |-> FALSE, held |-> 0], disk |-> disk + part] : part \in 0 .. count - 1}

\* What becomes of size bytes: [stream, disk].
Taken(size) ==
  IF ~stream.good THEN {[stream |-> stream, disk |-> disk]}
  ELSE IF Fits(size) THEN {[stream |-> [stream EXCEPT !.held = @ + size], disk |-> disk]}
  ELSE LET all == stream.held + size
       IN  Broken(all) \cup
           {[stream |-> [good |-> TRUE, held |-> rest], disk |-> disk + all - rest] :
              rest \in 0 .. BufferSize}

\* A released block is written again as if it were there.
PutSizeBug(i) == puts[i].size

PutSize(i) == IF i \in released THEN 0 ELSE puts[i].size

\* vgf_updater sets exceptions before it opens its file, vgf_dump after.
ThrowingBug == program = "updater"

Throwing == program \in {"updater", "path"}

\* output.fail(), in a loop over the blocks that are still listed.
Checked(i) == puts[i].checked /\ ~(puts[i].block /\ 0 \in released)

\* The last put of a tool is of the mapped bytes, gone with the input.
Gone(i) == inputGone /\ i = Len(puts) /\ puts[i].size > 0 /\ stream.good

\* What is gone cannot be copied, and fails to be written: EFAULT.
PutTaken(i) == IF Gone(i) THEN Broken(stream.held + 1) ELSE Taken(PutSize(i))

\* WriteTo clears a block once it is put, before it looks at the stream.
Put ==
  /\ stage = "put" /\ next <= Len(puts)
  /\ Gone(next) => ~Fits(puts[next].size)
  /\ \E taken \in PutTaken(next) :
       /\ stream' = taken.stream
       /\ disk' = taken.disk
       /\ IF ~taken.stream.good /\ (Throwing \/ Checked(next))
          THEN Answer(Failure)
          ELSE UNCHANGED <<stage, answer>>
       /\ released' = IF puts[next].block /\ (taken.stream.good \/ ~Throwing)
                      THEN released \cup {next} ELSE released
  /\ next' = next + 1
  /\ asked' = asked + puts[next].size
  /\ UNCHANGED <<program, own, mapped, puts, fresh, inputGone, calls>>

\* Copying them into the buffer kills the process.
PutFaults ==
  /\ stage = "put" /\ next <= Len(puts)
  /\ Gone(next) /\ Fits(puts[next].size)
  /\ Answer("killed")
  /\ UNCHANGED <<program, own, mapped, puts, next, asked, stream, released, fresh, inputGone, disk, calls>>

EndPuts ==
  /\ stage = "put" /\ next > Len(puts)
  /\ stage' = "close"
  /\ released' = IF program \in Encoders THEN released \cup {0} ELSE released
  /\ UNCHANGED <<program, own, mapped, puts, next, asked, stream, fresh, inputGone, disk, answer, calls>>

\* The failure at the end is seen by whoever closes the file and looks.
CloseSeenBug == FALSE

CloseSeen == program = "updater"

\* close, or the destructor, or the flush at exit.
Close ==
  /\ stage = "close" /\ program # "python"
  /\ \/ disk' = disk + stream.held /\ Answer("true")
     \/ /\ stream.held > 0
        /\ disk' \in disk .. disk + stream.held - 1
        /\ Answer(IF CloseSeen THEN "threw" ELSE "true")
  /\ stream' = [stream EXCEPT !.held = 0]
  /\ UNCHANGED <<program, own, mapped, puts, next, asked, released, fresh, inputGone, calls>>

\* The Python stream's write, of everything at once: it raises, or takes
\* what it takes.
WriteBytes ==
  /\ stage = "close" /\ program = "python"
  /\ disk' \in 0 .. stream.held
  /\ \E a \in {"true", "threw"} : Answer(a)
  /\ stream' = [stream EXCEPT !.held = 0]
  /\ UNCHANGED <<program, own, mapped, puts, next, asked, released, fresh, inputGone, calls>>

--------------------------------------------------------------------------------
\* A client calls again with the same encoder.
CallAgain ==
  /\ stage = "done" /\ program \in {"capi", "python"} /\ calls < MaxCalls
  /\ calls' = calls + 1
  /\ stage' = IF program = "capi" THEN "open" ELSE "compute"
  /\ next' = 1
  /\ asked' = 0
  /\ stream' = [good |-> TRUE, held |-> 0]
  /\ fresh' = (released \subseteq {0})
  /\ disk' = Old
  /\ answer' = "none"
  /\ UNCHANGED <<program, own, mapped, puts, released, inputGone>>

WriteStep ==
  \/ ComputeFails \/ ComputeModel
  \/ OpenFails \/ Open \/ Refuse
  \/ Put \/ PutFaults \/ EndPuts \/ Close \/ WriteBytes
--------------------------------------------------------------------------------
\* vgf_updater exits with success only when the whole file is on the disk:
\* its stream throws, and it closes the file before it returns.
UpdaterSuccessIsWhole == program = "updater" /\ answer = "true" => Whole

\* What else says success may be short, but by no more than the stream holds
\* back, as the failure of the last flush is all it does not look at: the C
\* function when its encoder has a constant that no earlier call released,
\* and vgf_dump writing to a path.
ShortOnlyByBuffer ==
  /\ answer = "true" /\ fresh
  /\ program = "path" \/ (program = "capi" /\ puts[Len(puts)].checked)
  => asked - disk <= BufferSize

\* An encoder that released a block, in a call that failed or in one that
\* succeeded, never gets it into a file again: from C or from Python, a
\* call after that says true at most for a file that is not whole.
RetryNeverWhole == answer = "true" /\ ~fresh => ~Whole

\* A program whose output is its input: vgf_updater leaves the file alone,
\* and vgf_dump, which does not look, gets the JSON there, but never the
\* whole of code or of a constant it reads from the file it has truncated.
OwnInput ==
  own => /\ program = "updater" => disk = Old
         /\ answer = "true" /\ mapped /\ Whole => puts[Len(puts)].size = 0

\* A call returns, whatever fails.
CallEnds == stage # "done" ~> stage = "done"
================================================================================
