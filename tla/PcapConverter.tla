----------------------------- MODULE PcapConverter -----------------------------
(***************************************************************************)
(* pcapng2parquet: a capture is read through a sliding window, block by     *)
(* block; the packets of each window become a row group of the packets      *)
(* table, and what the decoders find in them is gathered and written at     *)
(* the end, one file per protocol.                                          *)
(*                                                                          *)
(* A file of the converter is the promise of ParquetFile: what its writer   *)
(* accepted, sealed or not.  A packet is its number in the capture.         *)
(***************************************************************************)
EXTENDS Integers, Sequences, SequencesExt, FiniteSetsExt, SequenceLoops

CONSTANTS
    Captures,    \* the captures a user may convert, as sequences of blocks
    Commands,    \* the command lines
    PduTables,   \* the tables of write_pdu_tables, in its order
    MaxU64       \* UINT64_MAX

\* "cut" is a last block the file does not hold all of, "bad" one scan_window
\* refuses; "simple" stands for both packet blocks of pcapng.
BlockKinds == {"shb", "idb", "simple", "record", "other", "cut", "bad"}
Files == {"packets", "lldp"} \cup ToSet(PduTables)

\* size: in bytes.  parses: parse_idb or parse_epb succeeds on it.  iface: the
\* interface a packet names.  link: the link type of an interface, or of a
\* classic record.  pdus: the tables the decoders would put the packet in.
Block == [kind : BlockKinds, size : Nat \ {0}, parses : BOOLEAN, iface : Nat,
          link : {"ethernet", "none", "raw"}, pdus : SUBSET (Files \ {"packets"})]
Command == [window : Nat \ {0}, drop : 0 .. MaxU64, take : 0 .. MaxU64,
            decode : BOOLEAN, lldp : BOOLEAN]

ASSUME MaxU64Assumption == MaxU64 \in Nat \ {0}
ASSUME CapturesAssumption ==
    \A c \in Captures :
      /\ c \in Seq(Block)
      /\ \A i \in DOMAIN c : c[i].kind = "cut" => i = Len(c)
      /\ Len(c) < MaxU64  \* packets are counted without overflow
ASSUME CommandsAssumption == Commands \subseteq Command
ASSUME PduTablesAssumption ==
    /\ PduTables \in Seq(STRING) /\ PduTables # <<>>
    /\ {"packets", "lldp"} \cap ToSet(PduTables) = {}

VARIABLES
    capture, args,
    pc,             \* where run() is: "start", "scan", "close", "pdu", "lldp", "done"
    exit,           \* what it returns: "none" so far, 0 ("success") or 1 ("failure")
    \* Window; next: the block at base(), the window always starts at one
    capacity, next, valid, eof,
    \* Converter
    sections,       \* the link types of the interfaces of each section
    section,        \* cur_section_, from 1; 0 before the first
    seen, emitted,  \* global_pid_, emitted_
    decoded,        \* dag_ and the table of lldp_engine_: packet numbers per table
    table, ok,      \* write_pdu_tables: the next table, and whether none failed
    files           \* per file: its writer, the row groups it accepted, is it sealed

inputs     == <<capture, args>>
windowVars == <<capacity, next, valid, eof>>
packetVars == <<sections, section, seen, emitted, decoded>>
pduVars    == <<table, ok>>
vars == <<inputs, pc, exit, windowVars, packetVars, pduVars, files>>

Finish(status) == pc' = "done" /\ exit' = status

------------------------------------------------------------------------------
(* The writer of one file, as its callers see it. *)

Absent == [writer |-> "none", groups |-> <<>>, sealed |-> FALSE]

\* A failed open hands a writer back, to be closed.
HandedBack(f) == [f EXCEPT !.writer = "handedBack"]
Opened(f) == [f EXCEPT !.writer = "open"]
Accepted(f, rows) == [f EXCEPT !.groups = Append(@, rows)]
\* close frees the writer; only OK says that the file is sealed.
Closings(f, status) ==
    {[f EXCEPT !.writer = "freed", !.sealed = s] :
       s \in IF status = "OK" THEN {TRUE} ELSE BOOLEAN}
AnyClosing(f) == Closings(f, "OK") \cup Closings(f, "IO_ERROR")

------------------------------------------------------------------------------
(* Window *)

\* The bytes of blocks i .. j.
Sizes == [i \in DOMAIN capture |-> capture[i].size]
Bytes(i, j) == Sums(Sizes)[j] - Sums(Sizes)[i - 1]

\* Fault: a read asks for a whole buffer, whatever tail is still in it.
FillPastTail(cap, from) ==
    LET rest == Bytes(from, Len(capture))
    IN /\ valid' = Min({valid - Bytes(next, from - 1) + cap, rest})
       /\ eof' = (eof \/ rest < cap)
\* fill: reads until the buffer is full or a read returns nothing.
Fill(cap, from) ==
    LET rest == Bytes(from, Len(capture))
    IN /\ valid' = Min({cap, rest})
       /\ eof' = (eof \/ rest < cap)

Full == valid = capacity

\* The blocks scan_window finds whole in the window: blocks next .. LastWhole.
Whole == {i \in next .. Len(capture) : capture[i].kind # "cut" /\ Bytes(next, i) <= valid}
LastWhole == Max(Whole \cup {next - 1})
Refused == \E i \in Whole : capture[i].kind = "bad"

------------------------------------------------------------------------------
(* classify_block *)

InSection(a) ==
    IF a.section > 0 THEN a
    ELSE [a EXCEPT !.sections = Append(@, <<>>), !.section = 1]

Classify(a, b) ==
    CASE b.kind = "shb" ->
           [a EXCEPT !.sections = Append(@, <<>>), !.section = Len(a.sections) + 1]
      [] b.kind = "idb" ->
           LET in == InSection(a)
           IN IF b.parses THEN [in EXCEPT !.sections[in.section] = Append(@, b.link)] ELSE in
      [] b.kind \in {"simple", "record"} ->
           LET in == InSection(a)
           IN [in EXCEPT !.packets = Append(@, [block |-> b, section |-> in.section])]
      [] OTHER -> a

\* What the loop over blocks has made of a after each of them.
Classifying(a, blocks) ==
    LET after[k \in 0 .. Len(blocks)] ==
          IF k = 0 THEN a ELSE Classify(after[k - 1], blocks[k])
    IN after

\* The blocks of the window.
Refs == SubSeq(capture, next, LastWhole)
Classified ==
    Classifying([sections |-> sections, section |-> section, packets |-> <<>>], Refs)[Len(Refs)]

------------------------------------------------------------------------------
(* process_window *)

\* Fault: the end of the slice is counted in packets emitted, not in packets seen.
SliceOfEmitted(n) ==
    [lo |-> IF args.drop > seen THEN Min({args.drop - seen, n}) ELSE 0,
     hi |-> IF args.take = MaxU64 THEN n ELSE Min({args.take - emitted, n})]
\* The packets of a window of n that --drop and --count keep: lo + 1 .. hi.
SliceEnd == (args.drop + args.take) % (MaxU64 + 1)
Slice(n) ==
    [lo |-> IF args.drop > seen THEN Min({args.drop - seen, n}) ELSE 0,
     hi |-> IF args.take = MaxU64 THEN n
            ELSE IF SliceEnd > seen THEN Min({SliceEnd - seen, n}) ELSE 0]

\* The interface a packet names; parse_epb leaves zero behind when it fails.
Named(b) == IF b.parses THEN b.iface ELSE 0

\* Fault: the interfaces are those of the section the window ends in.
LinkInLastSection(c, p) ==
    LET links == c.sections[c.section]
    IN IF p.block.kind = "record" THEN p.block.link
       ELSE IF Named(p.block) < Len(links) THEN links[Named(p.block) + 1] ELSE "none"
Link(c, p) ==
    LET links == c.sections[p.section]
    IN IF p.block.kind = "record" THEN p.block.link
       ELSE IF Named(p.block) < Len(links) THEN links[Named(p.block) + 1] ELSE "none"

\* The rows of the window: their packet_id is the number in the whole capture.
RowsOf(c) ==
    LET s == Slice(Len(c.packets))
    IN [k \in 1 .. Max({s.hi - s.lo, 0}) |->
          LET p == c.packets[s.lo + k]
          IN [id |-> seen + s.lo + k - 1, link |-> Link(c, p),
              pdus |-> IF p.block.parses THEN p.block.pdus ELSE {}]]

Asked(t) == IF t = "lldp" THEN args.lldp ELSE args.decode

\* Fault: a packet is decoded whatever its link type is.
DecodesAnyLink(row, t) == Asked(t) /\ t \in row.pdus
Decodes(row, t) == Asked(t) /\ row.link = "ethernet" /\ t \in row.pdus

Ids(rows) == [k \in DOMAIN rows |-> rows[k].id]

\* One window: its packets are classified, sliced and decoded.
TakePackets(c, rows) ==
    /\ sections' = c.sections
    /\ section' = c.section
    /\ seen' = seen + Len(c.packets)
    /\ emitted' = emitted + Len(rows)
    /\ decoded' = [t \in DOMAIN decoded |->
                     decoded[t] \o Ids(Picked(rows, {k \in DOMAIN rows : Decodes(rows[k], t)}))]

------------------------------------------------------------------------------
(* run *)

Init ==
    /\ capture \in Captures /\ args \in Commands
    /\ pc = "start" /\ exit = "none"
    /\ capacity = args.window /\ next = 1 /\ valid = 0 /\ eof = FALSE
    /\ sections = <<>> /\ section = 0 /\ seen = 0 /\ emitted = 0
    /\ decoded = [t \in Files \ {"packets"} |-> <<>>]
    /\ table = 1 /\ ok = TRUE
    /\ files = [f \in Files |-> Absent]

\* The input or the packets table does not open.
CannotStart ==
    /\ pc = "start"
    /\ \/ UNCHANGED files
       \/ files' = [files EXCEPT !["packets"] = HandedBack(@)]
    /\ Finish("failure")
    /\ UNCHANGED <<inputs, windowVars, packetVars, pduVars>>

Start ==
    /\ pc = "start"
    /\ pc' = "scan"
    /\ files' = [files EXCEPT !["packets"] = Opened(@)]
    /\ Fill(capacity, next)
    /\ UNCHANGED <<inputs, exit, capacity, next, packetVars, pduVars>>

\* Fault: a failure in the loop returns without closing the packets table.
GiveUpAtOnce ==
    /\ Finish("failure")
    /\ UNCHANGED <<inputs, windowVars, pduVars, files>>
\* A failure in the loop closes the packets table, whatever that returns.
GiveUp ==
    /\ \E f \in AnyClosing(files["packets"]) : files' = [files EXCEPT !["packets"] = f]
    /\ Finish("failure")
    /\ UNCHANGED <<inputs, windowVars, pduVars>>

\* The rules do not compile; they are constant, but the outcome is checked.
LldpRulesFail == pc = "start" /\ args.lldp /\ GiveUp /\ UNCHANGED packetVars

LoopDone ==
    /\ pc = "scan" /\ valid = 0
    /\ pc' = "close"
    /\ UNCHANGED <<inputs, exit, windowVars, packetVars, pduVars, files>>

ScanFails ==
    /\ pc = "scan" /\ valid > 0 /\ Refused
    /\ GiveUp
    /\ UNCHANGED packetVars

\* Fault: the window does not grow, and fill finds no room.
RefillOnly ==
    /\ Fill(capacity, next)
    /\ UNCHANGED <<capacity, pc>>
\* Fault: the window grows on every block it does not hold, also at the end of
\* the file.
RefillAlways ==
    /\ capacity' = 4 * capacity
    /\ Fill(capacity', next)
    /\ UNCHANGED pc
\* No block is whole: at the end of the file nothing more will come; before it
\* the window is full, since fill stops for nothing else, and a block larger
\* than the window makes it grow.
Refill ==
    IF eof THEN pc' = "close" /\ UNCHANGED <<capacity, valid, eof>>
    ELSE /\ capacity' = IF Full THEN 2 * capacity ELSE capacity
         /\ Fill(capacity', next)
         /\ UNCHANGED pc

NoWholeBlock ==
    /\ pc = "scan" /\ valid > 0 /\ ~Refused /\ Whole = {}
    /\ Refill
    /\ UNCHANGED <<inputs, exit, next, packetVars, pduVars, files>>

\* consume, then the loop ends early once the slice is passed.
Consume ==
    /\ next' = LastWhole + 1
    /\ UNCHANGED capacity
    /\ IF args.take # MaxU64 /\ seen' >= SliceEnd
       THEN pc' = "close" /\ valid' = valid - Bytes(next, LastWhole) /\ UNCHANGED eof
       ELSE Fill(capacity, next') /\ UNCHANGED pc

\* A window with packets to keep is one row group; any other writes nothing.
ProcessWindow ==
    /\ pc = "scan" /\ Whole # {} /\ ~Refused
    /\ \E c \in {Classified} : \E rows \in {RowsOf(c)} :
         /\ TakePackets(c, rows)
         /\ files' = IF rows = <<>> THEN files
                     ELSE [files EXCEPT !["packets"] = Accepted(@, rows)]
    /\ Consume
    /\ UNCHANGED <<inputs, exit, pduVars>>

WindowFails ==
    /\ pc = "scan" /\ Whole # {} /\ ~Refused
    /\ \E c \in {Classified} : \E rows \in {RowsOf(c)} :
         rows # <<>> /\ TakePackets(c, rows)
    /\ GiveUp

\* After the packets table, and after the PDU tables.
AfterPackets ==
    IF args.decode /\ emitted > 0 THEN pc' = "pdu" /\ UNCHANGED exit
    ELSE IF args.lldp THEN pc' = "lldp" /\ UNCHANGED exit
    ELSE Finish("success")
AfterPdus ==
    IF args.lldp THEN pc' = "lldp" /\ UNCHANGED exit ELSE Finish("success")

\* Fault: the status of the close is not looked at.
ClosePacketsUnchecked ==
    /\ pc = "close"
    /\ \E f \in AnyClosing(files["packets"]) : files' = [files EXCEPT !["packets"] = f]
    /\ AfterPackets
    /\ UNCHANGED <<inputs, windowVars, packetVars, pduVars>>
ClosePackets ==
    /\ pc = "close"
    /\ \E status \in {"OK", "IO_ERROR"} :
         /\ \E f \in Closings(files["packets"], status) :
              files' = [files EXCEPT !["packets"] = f]
         /\ IF status = "OK" THEN AfterPackets ELSE Finish("failure")
    /\ UNCHANGED <<inputs, windowVars, packetVars, pduVars>>

------------------------------------------------------------------------------
(* write_pdu_tables, write_dag_pdu_table, write_lldp_table *)

\* The next table: the others are tried also after one has failed.
NextTable(succeeded) ==
    /\ ok' = (ok /\ succeeded)
    /\ table' = table + 1
    /\ IF table < Len(PduTables) THEN UNCHANGED <<pc, exit>>
       ELSE IF ok' THEN AfterPdus ELSE Finish("failure")

AtTable(t) == pc = "pdu" /\ t = PduTables[table]

SkipTable(t) ==
    /\ AtTable(t) /\ decoded[t] = <<>>
    /\ NextTable(TRUE)
    /\ UNCHANGED <<inputs, windowVars, packetVars, files>>

WriteTable(t) ==
    /\ AtTable(t) /\ decoded[t] # <<>>
    /\ \E f \in Closings(Accepted(Opened(Absent), decoded[t]), "OK") :
         files' = [files EXCEPT ![t] = f]
    /\ NextTable(TRUE)
    /\ UNCHANGED <<inputs, windowVars, packetVars>>

\* Schema or batch does not build, the file does not open, the batch is not
\* accepted, or the close fails.
TableFails(t) ==
    /\ AtTable(t) /\ decoded[t] # <<>>
    /\ \E f \in {Absent, HandedBack(Absent)} \cup AnyClosing(Opened(Absent))
                \cup Closings(Accepted(Opened(Absent), decoded[t]), "IO_ERROR") :
         files' = [files EXCEPT ![t] = f]
    /\ NextTable(FALSE)
    /\ UNCHANGED <<inputs, windowVars, packetVars>>

\* The close of the LLDP table may fail unnoticed.
WriteLldp ==
    /\ pc = "lldp"
    /\ \/ decoded["lldp"] = <<>> /\ UNCHANGED files
       \/ /\ decoded["lldp"] # <<>>
          /\ \E f \in AnyClosing(Accepted(Opened(Absent), decoded["lldp"])) :
               files' = [files EXCEPT !["lldp"] = f]
    /\ Finish("success")
    /\ UNCHANGED <<inputs, windowVars, packetVars, pduVars>>

LldpFails ==
    /\ pc = "lldp" /\ decoded["lldp"] # <<>>
    /\ \E f \in {Absent, HandedBack(Absent)} \cup AnyClosing(Opened(Absent)) :
         files' = [files EXCEPT !["lldp"] = f]
    /\ Finish("failure")
    /\ UNCHANGED <<inputs, windowVars, packetVars, pduVars>>

Next ==
    \/ CannotStart \/ Start \/ LldpRulesFail
    \/ LoopDone \/ ScanFails \/ NoWholeBlock \/ ProcessWindow \/ WindowFails
    \/ ClosePackets
    \/ \E t \in ToSet(PduTables) : SkipTable(t) \/ WriteTable(t) \/ TableFails(t)
    \/ WriteLldp \/ LldpFails

\* A command-line program that runs to its end.
Spec == Init /\ [][Next]_vars /\ WF_vars(Next)

------------------------------------------------------------------------------
(* The capture as a whole, without windows. *)

IsPacket(b) == b.kind \in {"simple", "record"}
PacketBlocks ==
    Picked([i \in DOMAIN capture |-> i], {i \in DOMAIN capture : IsPacket(capture[i])})

\* The interfaces of block i of c: of its section, before it.
SectionStart(c, i) == Max({0} \cup {j \in 1 .. i : c[j].kind = "shb"})
InterfacesOf(c, i) == Picks(c, {j \in SectionStart(c, i) + 1 .. i : c[j].kind = "idb"})[i]
LinkOf(i) ==
    LET b == capture[i]
        faces == InterfacesOf(capture, i)
    IN IF b.kind = "record" THEN b.link
       ELSE IF Named(b) < Len(faces) THEN faces[Named(b) + 1].link ELSE "none"

\* --drop d --count c: packets d .. d + c - 1, of those there are.
InSlice(id) == id >= args.drop /\ (args.take = MaxU64 \/ id < args.drop + args.take)

Written == FlattenSeq(files["packets"].groups)

------------------------------------------------------------------------------
(* Properties. *)

TypeOK ==
    /\ pc \in {"start", "scan", "close", "pdu", "lldp", "done"}
    /\ exit \in {"none", "success", "failure"}
    /\ next \in 1 .. Len(capture) + 1
    /\ valid \in 0 .. capacity
    /\ eof \in BOOLEAN /\ ok \in BOOLEAN
    /\ section \in 0 .. Len(sections)
    /\ emitted \in 0 .. seen
    /\ \A t \in DOMAIN decoded : \A k \in DOMAIN decoded[t] : decoded[t][k] < seen
    /\ table \in 1 .. Len(PduTables) + 1
    /\ \A f \in Files : files[f].writer \in {"none", "handedBack", "open", "freed"}

\* However the windows fall, the packets table holds the slice --drop and --count
\* ask for: of the packets seen so far while the conversion runs, of the whole
\* capture when it returns 0, each once, in order, under its number in the
\* whole capture ("slices stitch into a bit-exact replica").
RowsAreTheSlice ==
    LET last == IF exit = "success" THEN Len(PacketBlocks) ELSE seen
    IN exit # "failure" =>
         Ids(Written) =
           Picked([k \in 1 .. last |-> k - 1], {k \in 1 .. last : InSlice(k - 1)})

\* A row carries the link type of the interface its packet names, in the
\* packet's own section, wherever that section's blocks were met.
LinkIsOfInterface ==
    \A k \in DOMAIN Written :
      Written[k].link = LinkOf(PacketBlocks[Written[k].id + 1])

\* The packets table is that of the capture as a whole, with no windows.
PacketsOK == RowsAreTheSlice /\ LinkIsOfInterface

\* Every PDU table joins back to the packets table: a sealed table holds exactly
\* the Ethernet packets written that its protocol is found in.
PdusJoinPackets ==
    \A t \in Files \ {"packets"} :
      files[t].sealed /\ files[t].groups # <<>> =>
        /\ files["packets"].sealed
        /\ files[t].groups =
             <<Ids(Picked(Written, {k \in DOMAIN Written :
                                      Written[k].link = "ethernet" /\ t \in Written[k].pdus}))>>

\* Exit status 0 means that the packets table is complete on the disk, and with
\* --decode-l2l3 every PDU table that has a row.
ExitZeroIsComplete ==
    exit = "success" =>
      /\ files["packets"].sealed
      /\ \A t \in ToSet(PduTables) : decoded[t] # <<>> => files[t].sealed

\* A failure on the way leaves no writer open: each one a call opened is closed.
\* (One that a failed open handed back is not: the program ends without its memory.)
OpenedIsClosed == pc = "done" => \A f \in Files : files[f].writer # "open"

\* Memory stays bounded by the window asked for, or by the largest block.
WindowIsBounded ==
    capacity = args.window
    \/ capacity <= 2 * Max({capture[i].size : i \in DOMAIN capture})

\* What is read ahead of the blocks done stays in the window, and the window small.
WindowOK == TypeOK /\ WindowIsBounded

\* The conversion ends, also on a capture cut short or with a block larger than
\* the window.
Terminates == <>(pc = "done")

\* usage: "with --lldp, also <output-stem>_lldp.parquet (one row per LLDP TLV)".
LldpIsWritten == exit = "success" /\ decoded["lldp"] # <<>> => files["lldp"].sealed
==============================================================================
