------------------------- MODULE PcapConverter_proofs -------------------------
(***************************************************************************)
(* Theorems about PcapConverter, for every capture, command line and set    *)
(* of tables.                                                               *)
(*                                                                          *)
(* The inductive invariant IInv has one part for each thing that moves: the *)
(* window in the file (WindowInv), what is known of the packets (PacketInv, *)
(* DecodedInv), the stage of run (StageInv), the writers (WriterInv), what  *)
(* the files hold (FilesInv) and which tables failed (ExitInv).  SliceInv   *)
(* adds the capture as a whole: after any windows, the converter knows what *)
(* it would know had it read all blocks before the next one in one window,  *)
(* and has written of their packets those in the slice.                     *)
(***************************************************************************)
EXTENDS PcapConverter, SequenceLoops_lemmas

------------------------------------------------------------------------------
(* Classification: the blocks of a capture, in a window or as a whole. *)

\* The link types of interfaces, and a packet as classify_block keeps it.
Links == {"ethernet", "none", "raw"}
Packet == [block : Block, section : Nat]

\* What classify_block keeps: the current section is the last one, and every packet is
\* in one of them.
Kept == {a \in [sections : Seq(Seq(Links)), section : Nat, packets : Seq(Packet)] :
           /\ a.section = Len(a.sections)
           /\ \A k \in 1 .. Len(a.packets) : a.packets[k].section \in 1 .. Len(a.sections)}
\* Before the first block.
Fresh == [sections |-> <<>>, section |-> 0, packets |-> <<>>]

\* What a block makes of the sections, and the interfaces of the current one.
NewSections(ss, b) ==
    LET in == IF ss = <<>> THEN <<<<>>>> ELSE ss
    IN IF b.kind = "shb" THEN Append(ss, <<>>)
       ELSE IF b.kind = "idb" /\ b.parses THEN [in EXCEPT ![Len(in)] = Append(in[Len(in)], b.link)]
       ELSE IF b.kind = "idb" \/ IsPacket(b) THEN in
       ELSE ss
\* The interfaces of the section a packet would be put in now.
Current(ss) == IF ss = <<>> THEN <<>> ELSE ss[Len(ss)]

\* The fields of a block.
LEMMA BlockFacts ==
    ASSUME NEW b \in Block
    PROVE  b.link \in Links /\ b.kind \in BlockKinds /\ b.iface \in Nat /\ b.size \in Nat \ {0}
           /\ b.parses \in BOOLEAN /\ Named(b) \in Nat /\ b.pdus \subseteq Files
BY DEF Block, Links, Named

\* Updates of what classify_block keeps.
LEMMA RecordUpdates ==
    ASSUME NEW a, NEW x, NEW y, NEW z, a = [sections |-> x, section |-> y, packets |-> z],
           NEW v, NEW w
    PROVE  /\ [a EXCEPT !.sections = v, !.section = w]
                = [sections |-> v, section |-> w, packets |-> z]
           /\ [a EXCEPT !.sections = v] = [sections |-> v, section |-> y, packets |-> z]
           /\ [a EXCEPT !.packets = v] = [sections |-> x, section |-> y, packets |-> v]
           /\ a.sections = x /\ a.section = y /\ a.packets = z
<1> DEFINE one == [a EXCEPT !.sections = v]
           two == [a EXCEPT !.packets = v]
<1>1. one = [sections |-> v, section |-> y, packets |-> z]
  OBVIOUS
<1>2. two = [sections |-> x, section |-> y, packets |-> v]
  OBVIOUS
<1>3. [one EXCEPT !.section = w] = [sections |-> v, section |-> w, packets |-> z]
  <2> HIDE DEF one
  <2>1. QED
    BY <1>1
<1>4. [a EXCEPT !.sections = v, !.section = w] = [one EXCEPT !.section = w]
  OBVIOUS
<1>5. a.sections = x /\ a.section = y /\ a.packets = z
  OBVIOUS
<1>6. QED
  BY <1>1, <1>2, <1>3, <1>4, <1>5

\* One block: its packet is put in the section it leaves current.
LEMMA ClassifyEffect ==
    ASSUME NEW a \in Kept, NEW b \in Block
    PROVE  /\ Classify(a, b).sections = NewSections(a.sections, b)
           /\ Classify(a, b).section = Len(NewSections(a.sections, b))
           /\ Classify(a, b).packets =
                IF IsPacket(b)
                THEN Append(a.packets, [block |-> b, section |-> Len(NewSections(a.sections, b))])
                ELSE a.packets
           /\ Classify(a, b) = [sections |-> Classify(a, b).sections, section |-> Classify(a, b).section,
                                packets |-> Classify(a, b).packets]
<1> DEFINE ss == a.sections
           in == IF ss = <<>> THEN <<<<>>>> ELSE ss
<1>1. /\ a = [sections |-> ss, section |-> Len(ss), packets |-> a.packets]
      /\ ss \in Seq(Seq(Links)) /\ Len(ss) \in Nat /\ a.section = Len(ss)
      /\ (a.section > 0 <=> ss # <<>>)
  <2>1. ss \in Seq(Seq(Links)) /\ a.section = Len(ss)
        /\ a = [sections |-> ss, section |-> a.section, packets |-> a.packets]
    BY DEF Kept
  <2>2. ss = <<>> <=> Len(ss) = 0
    BY <2>1, EmptySeq
  <2>3. QED
    BY <2>1, <2>2
<1>2. Len(<<<<>>>>) = 1
  OBVIOUS
<1>3. InSection(a) = [sections |-> in, section |-> Len(in), packets |-> a.packets]
  <2>1. CASE ss = <<>>
    <3>1. Append(a.sections, <<>>) = <<<<>>>>
      BY <2>1
    <3>2. InSection(a) = [a EXCEPT !.sections = Append(a.sections, <<>>), !.section = 1]
      BY <1>1, <2>1 DEF InSection
    <3>3. InSection(a) = [sections |-> Append(a.sections, <<>>), section |-> 1, packets |-> a.packets]
      BY <1>1, <3>2, RecordUpdates
    <3>4. QED
      BY <1>2, <2>1, <3>1, <3>3
  <2>2. CASE ss # <<>>
    BY <1>1, <2>2 DEF InSection
  <2>3. QED
    BY <2>1, <2>2
<1>4. b.kind \in BlockKinds
  BY BlockFacts
<1>5. CASE b.kind = "shb"
  <2>1. Classify(a, b) = [sections |-> Append(ss, <<>>), section |-> Len(ss) + 1, packets |-> a.packets]
    <3>1. Classify(a, b) = [a EXCEPT !.sections = Append(a.sections, <<>>), !.section = Len(a.sections) + 1]
      BY <1>5 DEF Classify
    <3>2. QED
      BY <1>1, <3>1, RecordUpdates
  <2>2. NewSections(ss, b) = Append(ss, <<>>) /\ ~IsPacket(b)
    BY <1>5 DEF NewSections, IsPacket
  <2>3. Len(Append(ss, <<>>)) = Len(ss) + 1
    <3>1. <<>> \in Seq(Links)
      OBVIOUS
    <3> HIDE DEF ss
    <3>2. QED
      BY <1>1, <3>1
  <2>4. QED
    BY <2>1, <2>2, <2>3
<1>6. CASE b.kind = "idb" /\ b.parses
  <2> DEFINE to == InSection(a)
  <2>1. Classify(a, b) = [to EXCEPT !.sections = [to.sections EXCEPT ![to.section] =
                                                    Append(to.sections[to.section], b.link)]]
    BY <1>6 DEF Classify
  <2>2. Classify(a, b) = [sections |-> [in EXCEPT ![Len(in)] = Append(in[Len(in)], b.link)],
                          section |-> Len(in), packets |-> a.packets]
    <3>1. to.sections = in /\ to.section = Len(in)
      BY <1>3
    <3>2. Classify(a, b) = [sections |-> [to.sections EXCEPT ![to.section] =
                                            Append(to.sections[to.section], b.link)],
                            section |-> Len(in), packets |-> a.packets]
      <4> DEFINE v == [to.sections EXCEPT ![to.section] = Append(to.sections[to.section], b.link)]
                 n == Len(in)
      <4>1. to = [sections |-> in, section |-> n, packets |-> a.packets]
        BY <1>3
      <4>2. Classify(a, b) = [to EXCEPT !.sections = v]
        BY <2>1
      <4> HIDE DEF v, n, in, to
      <4>3. Classify(a, b) = [sections |-> v, section |-> n, packets |-> a.packets]
        BY <4>1, <4>2, RecordUpdates
      <4>4. QED
        BY <4>3 DEF v, n
    <3>3. QED
      BY <3>1, <3>2
  <2>3. NewSections(ss, b) = [in EXCEPT ![Len(in)] = Append(in[Len(in)], b.link)] /\ ~IsPacket(b)
    BY <1>6 DEF NewSections, IsPacket
  <2>4. Len(NewSections(ss, b)) = Len(in)
    <3>1. in \in Seq(Seq(Links))
      BY <1>1
    <3> HIDE DEF in
    <3>2. DOMAIN NewSections(ss, b) = DOMAIN in /\ Len(in) \in Nat
      BY <2>3, <3>1
    <3>3. DOMAIN in = 1 .. Len(in)
      BY <3>1
    <3>4. QED
      BY <3>2, <3>3
  <2>5. QED
    BY <2>2, <2>3, <2>4
<1>7. CASE b.kind = "idb" /\ ~b.parses
  BY <1>3, <1>7 DEF Classify, NewSections, IsPacket
<1>8. CASE IsPacket(b)
  <2> DEFINE to == InSection(a)
  <2>1. Classify(a, b) = [to EXCEPT !.packets =
                            Append(to.packets, [block |-> b, section |-> to.section])]
    BY <1>8 DEF Classify, IsPacket
  <2>2. Classify(a, b) = [sections |-> in, section |-> Len(in),
                          packets |-> Append(a.packets, [block |-> b, section |-> Len(in)])]
    <3>1. to.packets = a.packets /\ to.section = Len(in)
      BY <1>3
    <3>2. Classify(a, b) = [sections |-> in, section |-> Len(in),
                            packets |-> Append(to.packets, [block |-> b, section |-> to.section])]
      <4> DEFINE v == Append(to.packets, [block |-> b, section |-> to.section])
                 n == Len(in)
      <4>1. to = [sections |-> in, section |-> n, packets |-> a.packets]
        BY <1>3
      <4>2. Classify(a, b) = [to EXCEPT !.packets = v]
        BY <2>1
      <4> HIDE DEF v, n, in, to
      <4>3. Classify(a, b) = [sections |-> in, section |-> n, packets |-> v]
        BY <4>1, <4>2, RecordUpdates
      <4>4. QED
        BY <4>3 DEF v, n
    <3>3. QED
      BY <3>1, <3>2
  <2>3. NewSections(ss, b) = in
    BY <1>8 DEF NewSections, IsPacket
  <2>4. QED
    BY <1>8, <2>2, <2>3
<1>9. CASE b.kind \in {"other", "cut", "bad"}
  BY <1>1, <1>9 DEF Classify, NewSections, IsPacket
<1>10. QED
  BY <1>4, <1>5, <1>6, <1>7, <1>8, <1>9 DEF BlockKinds, IsPacket
\* What a block makes of the sections: a new one is empty, an interface is added to the
\* current one, and the earlier ones stay as they are.
LEMMA SectionsEffect ==
    ASSUME NEW ss \in Seq(Seq(Links)), NEW b \in Block
    PROVE  LET new == NewSections(ss, b)
           IN /\ new \in Seq(Seq(Links))
              /\ Len(new) >= Len(ss)
              /\ b.kind = "shb" => Len(new) = Len(ss) + 1
              /\ b.kind # "shb" /\ ss # <<>> => Len(new) = Len(ss)
              /\ b.kind = "idb" \/ IsPacket(b) => new # <<>>
              /\ Current(new) = IF b.kind = "shb" THEN <<>>
                                ELSE IF b.kind = "idb" /\ b.parses THEN Append(Current(ss), b.link)
                                ELSE Current(ss)
              /\ \A s \in 1 .. Len(ss) : s < Len(ss) \/ b.kind = "shb" => new[s] = ss[s]
<1> DEFINE new == NewSections(ss, b)
           in == IF ss = <<>> THEN <<<<>>>> ELSE ss
<1>1. Len(ss) \in Nat /\ (ss = <<>> <=> Len(ss) = 0) /\ b.link \in Links
  BY EmptySeq, BlockFacts
<1>2. in \in Seq(Seq(Links)) /\ in # <<>> /\ Len(in) \in Nat \ {0} /\ in[Len(in)] \in Seq(Links)
      /\ Current(in) = in[Len(in)] /\ Current(in) = Current(ss)
      /\ (ss # <<>> => in = ss) /\ (ss = <<>> => Len(in) = 1)
  <2>1. CASE ss = <<>>
    <3>1. <<<<>>>> \in Seq(Seq(Links)) /\ Len(<<<<>>>>) = 1 /\ <<<<>>>>[1] = <<>> /\ <<<<>>>> # <<>>
      OBVIOUS
    <3>2. QED
      BY <2>1, <3>1 DEF Current
  <2>2. CASE ss # <<>>
    <3>1. Len(ss) \in 1 .. Len(ss)
      BY <1>1, <2>2
    <3>2. QED
      BY <1>1, <2>2, <3>1 DEF Current
  <2>3. QED
    BY <2>1, <2>2
<1>3. CASE b.kind = "shb"
  <2>1. new = Append(ss, <<>>) /\ <<>> \in Seq(Links) /\ ~IsPacket(b)
    BY <1>3 DEF NewSections, IsPacket
  <2>2. new \in Seq(Seq(Links)) /\ Len(new) = Len(ss) + 1 /\ new[Len(ss) + 1] = <<>>
        /\ \A s \in 1 .. Len(ss) : new[s] = ss[s]
    <3> DEFINE none == <<>>
               T == Seq(Links)
    <3> HIDE DEF none, new, T
    <3>1. none \in T /\ ss \in Seq(T) /\ new = Append(ss, none)
      BY <2>1 DEF none, T
    <3>2. new \in Seq(T) /\ Len(new) = Len(ss) + 1 /\ new[Len(ss) + 1] = none
          /\ \A s \in 1 .. Len(ss) : new[s] = ss[s]
      BY <3>1
    <3>3. QED
      BY <3>2 DEF none, T
  <2>3. new # <<>>
    BY <1>1, <2>2
  <2> HIDE DEF new, in
  <2>4. Current(new) = <<>>
    BY <2>2, <2>3 DEF Current
  <2>5. QED
    BY <1>1, <1>3, <2>1, <2>2, <2>3, <2>4 DEF new
<1>4. CASE b.kind = "idb" /\ b.parses
  <2> DEFINE n == Len(in)
             links == Append(in[n], b.link)
             T == Seq(Links)
  <2>1. new = [in EXCEPT ![n] = links]
    BY <1>4 DEF NewSections
  <2>2. links \in T /\ in \in Seq(T) /\ n \in Nat \ {0}
    BY <1>1, <1>2
  <2>3. new \in Seq(T) /\ Len(new) = n /\ new[n] = links /\ \A s \in 1 .. n : s # n => new[s] = in[s]
    <3> HIDE DEF links, T, new, in
    <3>1. DOMAIN in = 1 .. n
      BY <2>2
    <3>2. \A s \in 1 .. n : new[s] = IF s = n THEN links ELSE in[s]
      BY <2>1, <3>1
    <3>3. \A s \in 1 .. n : new[s] \in T
      <4>1. \A s \in 1 .. n : in[s] \in T
        BY <2>2
      <4>2. QED
        BY <2>2, <3>2, <4>1
    <3>4. new = [s \in 1 .. n |-> new[s]]
      BY <2>1, <3>1
    <3>5. new \in [1 .. n -> T]
      BY <3>3, <3>4
    <3>6. new \in Seq(T) /\ Len(new) = n
      BY <2>2, <3>5
    <3>7. QED
      BY <2>2, <3>2, <3>6
  <2>4. Current(new) = Append(Current(ss), b.link) /\ new # <<>>
    <3> HIDE DEF new, in
    <3>1. new # <<>>
      BY <2>2, <2>3
    <3>2. QED
      BY <1>2, <2>3, <3>1 DEF Current
  <2>5. n >= Len(ss) /\ (ss # <<>> => n = Len(ss)) /\ \A s \in 1 .. Len(ss) : s < Len(ss) => new[s] = ss[s]
    <3> HIDE DEF new, links, in
    <3>1. QED
      BY <1>1, <1>2, <2>2, <2>3
  <2> HIDE DEF new, in, links
  <2>6. QED
    BY <1>1, <1>4, <2>2, <2>3, <2>4, <2>5 DEF new, T
<1>5. CASE b.kind # "shb" /\ ~(b.kind = "idb" /\ b.parses) /\ (b.kind = "idb" \/ IsPacket(b))
  <2>1. new = in
    BY <1>5 DEF NewSections
  <2> HIDE DEF new, in
  <2>2. Len(in) >= Len(ss) /\ (ss # <<>> => Len(in) = Len(ss))
        /\ \A s \in 1 .. Len(ss) : s < Len(ss) => in[s] = ss[s]
    BY <1>1, <1>2
  <2>3. QED
    BY <1>1, <1>2, <1>5, <2>1, <2>2 DEF new
<1>6. CASE b.kind # "shb" /\ b.kind # "idb" /\ ~IsPacket(b)
  <2>1. new = ss
    BY <1>6 DEF NewSections
  <2>2. QED
    BY <1>1, <1>6, <2>1
<1>7. QED
  BY <1>3, <1>4, <1>5, <1>6

\* A block after which the current section is still the last.
LEMMA ClassifyKept ==
    ASSUME NEW a \in Kept, NEW b \in Block
    PROVE  Classify(a, b) \in Kept
<1> DEFINE d == Classify(a, b)
<1>1. /\ a.sections \in Seq(Seq(Links)) /\ a.packets \in Seq(Packet)
      /\ \A k \in 1 .. Len(a.packets) : a.packets[k].section \in 1 .. Len(a.sections)
  BY DEF Kept
<1>2. d.sections \in Seq(Seq(Links)) /\ d.section = Len(d.sections) /\ d.section \in Nat
  <2> DEFINE new == NewSections(a.sections, b)
  <2>1. new \in Seq(Seq(Links))
    BY <1>1, SectionsEffect
  <2>2. d.sections = new /\ d.section = Len(new)
    BY ClassifyEffect
  <2> HIDE DEF new, d
  <2>3. QED
    BY <2>1, <2>2
<1>3. d.packets \in Seq(Packet)
  <2>1. CASE IsPacket(b)
    <3> DEFINE p == [block |-> b, section |-> Len(NewSections(a.sections, b))]
    <3>1. p \in Packet
      BY <1>2, ClassifyEffect DEF Packet
    <3>2. d.packets = Append(a.packets, p)
      BY <2>1, ClassifyEffect
    <3> HIDE DEF p, d
    <3>3. QED
      BY <1>1, <3>1, <3>2
  <2>2. CASE ~IsPacket(b)
    BY <1>1, <2>2, ClassifyEffect
  <2>3. QED
    BY <2>1, <2>2
<1>4. d = [sections |-> d.sections, section |-> d.section, packets |-> d.packets]
  BY ClassifyEffect
<1>5. \A k \in 1 .. Len(d.packets) : d.packets[k].section \in 1 .. Len(d.sections)
  <2> DEFINE new == NewSections(a.sections, b)
  <2>1. Len(new) >= Len(a.sections) /\ Len(a.sections) \in Nat /\ new \in Seq(Seq(Links))
        /\ (IsPacket(b) => new # <<>>)
    BY <1>1, SectionsEffect
  <2>5. d.sections = new
    BY ClassifyEffect
  <2>2. CASE IsPacket(b)
    <3> DEFINE p == [block |-> b, section |-> Len(new)]
    <3>1. p.section = Len(new) /\ d.packets = Append(a.packets, p)
      BY <2>2, ClassifyEffect
    <3>6. p \in Packet
      BY <2>1 DEF Packet
    <3> HIDE DEF p, d, new
    <3>2. Len(new) \in 1 .. Len(new)
      BY <2>1, <2>2
    <3>3. Len(d.packets) = Len(a.packets) + 1 /\ d.packets[Len(a.packets) + 1] = p
          /\ \A k \in 1 .. Len(a.packets) : d.packets[k] = a.packets[k]
      BY <1>1, <3>1, <3>6
    <3>4. \A k \in 1 .. Len(d.packets) : k \in 1 .. Len(a.packets) \/ k = Len(a.packets) + 1
      BY <1>1, <3>3
    <3>5. QED
      BY <1>1, <2>1, <2>5, <3>1, <3>2, <3>3, <3>4
  <2>3. CASE ~IsPacket(b)
    <3>1. d.packets = a.packets
      BY <2>3, ClassifyEffect
    <3> HIDE DEF d, new
    <3>2. QED
      BY <1>1, <2>1, <2>5, <3>1
  <2>4. QED
    BY <2>2, <2>3
<1> HIDE DEF d
<1>6. QED
  BY <1>2, <1>3, <1>4, <1>5 DEF Kept, d

\* So it is before the first one.
LEMMA FreshKept == Fresh \in Kept
BY DEF Fresh, Kept

\* The loop over blocks, one after another.
LEMMA ClassifyingDef ==
    ASSUME NEW a \in Kept, NEW blocks \in Seq(Block)
    PROVE  /\ Classifying(a, blocks) \in [0 .. Len(blocks) -> Kept]
           /\ Classifying(a, blocks)[0] = a
           /\ \A k \in 1 .. Len(blocks) :
                Classifying(a, blocks)[k] = Classify(Classifying(a, blocks)[k - 1], blocks[k])
<1> DEFINE n == Len(blocks)
           F == [i \in 1 .. n |-> [v \in Kept |-> Classify(v, blocks[i])]]
           Defines(f) == f = [k \in 0 .. n |-> IF k = 0 THEN a ELSE Classify(f[k - 1], blocks[k])]
           g == Classifying(a, blocks)
<1>1. n \in Nat /\ \A i \in 1 .. n : blocks[i] \in Block
  OBVIOUS
<1>2. F \in Steps(n, Kept)
  BY <1>1, ClassifyKept DEF Steps
<1>3. PICK f : Runs(f, n, Kept, a, F)
  <2> HIDE DEF F, n
  <2>1. QED
    BY <1>1, <1>2, Recursion
<1>4. f \in [0 .. n -> Kept] /\ f[0] = a /\ \A i \in 1 .. n : f[i] = F[i][f[i - 1]]
  <2> HIDE DEF F, n
  <2>1. QED
    BY <1>3 DEF Runs
<1>5. \A k \in 1 .. n : k - 1 \in 0 .. n /\ f[k - 1] \in Kept /\ f[k] = Classify(f[k - 1], blocks[k])
  <2> SUFFICES ASSUME NEW k \in 1 .. n
               PROVE  k - 1 \in 0 .. n /\ f[k - 1] \in Kept /\ f[k] = Classify(f[k - 1], blocks[k])
    OBVIOUS
  <2>1. k - 1 \in 0 .. n
    BY <1>1
  <2>2. f[k - 1] \in Kept
    BY <1>4, <2>1
  <2>3. F[k][f[k - 1]] = Classify(f[k - 1], blocks[k])
    BY <2>2
  <2>4. f[k] = F[k][f[k - 1]]
    <3> HIDE DEF F
    <3>1. QED
      BY <1>4
  <2>5. QED
    BY <2>1, <2>2, <2>3, <2>4
<1>6. Defines(f)
  <2>1. ASSUME NEW k \in 0 .. n
        PROVE  f[k] = IF k = 0 THEN a ELSE Classify(f[k - 1], blocks[k])
    BY <1>1, <1>4, <1>5
  <2>2. f = [k \in 0 .. n |-> f[k]]
    BY <1>4
  <2>3. QED
    BY <2>1, <2>2
<1>7. Defines(g)
  <2>1. g = CHOOSE h : Defines(h)
    BY DEF Classifying
  <2> HIDE DEF Defines, g
  <2>2. QED
    BY <1>6, <2>1
<1>8. g[0] = a /\ DOMAIN g = 0 .. n /\ \A k \in 1 .. n : g[k] = Classify(g[k - 1], blocks[k])
  <2> HIDE DEF g
  <2>1. \A k \in 0 .. n : g[k] = IF k = 0 THEN a ELSE Classify(g[k - 1], blocks[k])
    BY <1>7
  <2>2. DOMAIN g = 0 .. n
    BY <1>7
  <2>3. \A k \in 1 .. n : k \in 0 .. n /\ k # 0
    BY <1>1
  <2>4. 0 \in 0 .. n
    BY <1>1
  <2>5. QED
    BY <2>1, <2>2, <2>3, <2>4
<1> DEFINE S == {k \in 0 .. n : g[k] \in Kept}
<1>9. \A k \in 0 .. n : k \in S
  <2>1. 0 \in S
    BY <1>1, <1>8
  <2>2. ASSUME NEW k \in 0 .. n - 1, k \in S PROVE k + 1 \in S
    <3>1. k + 1 \in 1 .. n /\ (k + 1) - 1 = k /\ k + 1 \in 0 .. n
      BY <1>1
    <3>2. g[k + 1] = Classify(g[k], blocks[k + 1]) /\ blocks[k + 1] \in Block
      BY <1>1, <1>8, <3>1
    <3>3. QED
      BY <2>2, <3>1, <3>2, ClassifyKept
  <2> HIDE DEF S
  <2>3. QED
    BY <1>1, <2>1, <2>2, InductTo
<1>10. g = [k \in 0 .. n |-> g[k]]
  <2>1. \A k \in 0 .. n : g[k] = IF k = 0 THEN a ELSE Classify(g[k - 1], blocks[k])
    <3> HIDE DEF g
    <3>1. QED
      BY <1>7
  <2>2. g = [k \in 0 .. n |-> IF k = 0 THEN a ELSE Classify(g[k - 1], blocks[k])]
    BY <1>7
  <2> HIDE DEF g
  <2>3. QED
    BY <2>1, <2>2
<1>11. g \in [0 .. n -> Kept]
  <2> HIDE DEF g
  <2>1. QED
    BY <1>9, <1>10
<1>12. QED
  BY <1>8, <1>11

------------------------------------------------------------------------------
(* The window: where its blocks end, and what a fill makes of it. *)

\* The bytes of the file from block i on.
Rest(i) == Bytes(i, Len(capture))

\* In the loop, the window holds the next bytes of the file, as many as there are and as it
\* has room for; it grew for a block that did not fit, and no further than it had to.
WindowInv ==
    /\ capture \in Captures /\ args \in Commands
    /\ capacity \in Nat \ {0} /\ next \in 1 .. Len(capture) + 1
    /\ valid \in 0 .. capacity /\ eof \in BOOLEAN
    /\ pc = "start" => valid = 0 /\ eof = FALSE
    /\ pc = "scan" => /\ valid = Min({capacity, Rest(next)})
                      /\ eof <=> Rest(next) < capacity
    /\ capacity = args.window \/ \E i \in DOMAIN capture : capacity <= 2 * capture[i].size

\* A capture and its blocks.
LEMMA CaptureFacts ==
    ASSUME capture \in Captures
    PROVE  /\ capture \in Seq(Block) /\ Len(capture) \in Nat
           /\ \A i \in 1 .. Len(capture) : capture[i] \in Block /\ capture[i].size \in Nat \ {0}
           /\ DOMAIN capture = 1 .. Len(capture)
           /\ \A i \in DOMAIN capture : capture[i].kind = "cut" => i = Len(capture)
<1>1. capture \in Seq(Block) /\ \A i \in DOMAIN capture : capture[i].kind = "cut" => i = Len(capture)
  BY CapturesAssumption
<1>2. \A i \in 1 .. Len(capture) : capture[i] \in Block
  BY <1>1
<1>3. QED
  BY <1>1, <1>2, BlockFacts

\* Where each block ends.
LEMMA BytesFacts ==
    ASSUME capture \in Captures
    PROVE  /\ \A i \in 0 .. Len(capture), j \in 0 .. Len(capture) :
                i <= j => Bytes(i + 1, j) \in Nat
           /\ \A i \in 0 .. Len(capture) : Bytes(i + 1, i) = 0
           /\ \A i \in 0 .. Len(capture), j \in 0 .. Len(capture), k \in 0 .. Len(capture) :
                Bytes(i + 1, k) = Bytes(i + 1, j) + Bytes(j + 1, k)
           /\ \A i \in 1 .. Len(capture) : Bytes(i, i) = capture[i].size
<1> DEFINE n == Len(capture)
           P == Sums(Sizes)
<1>1. n \in Nat /\ DOMAIN capture = 1 .. n /\ \A i \in 1 .. n : capture[i].size \in Nat
  BY CaptureFacts
<1>2. Sizes \in Seq(Nat) /\ Len(Sizes) = n /\ Sizes \in Seq(Int) /\ \A i \in 1 .. n : Sizes[i] = capture[i].size
  <2>1. Sizes \in [1 .. n -> Nat]
    BY <1>1 DEF Sizes
  <2>2. Sizes \in Seq(Nat) /\ Len(Sizes) = n
    BY <1>1, <2>1
  <2>3. QED
    BY <1>1, <2>1, <2>2 DEF Sizes
<1>3. /\ \A i \in 0 .. n : P[i] \in Nat
      /\ \A i \in 0 .. n, j \in 0 .. n : i <= j => P[i] <= P[j]
      /\ \A i \in 1 .. n : P[i] = P[i - 1] + Sizes[i]
  <2>1. \A i \in 0 .. n : \A j \in i .. n : P[i] \in Nat /\ P[i] <= P[j]
    BY <1>2, SumsGrow
  <2>2. \A i \in 0 .. n : i \in i .. n
    BY <1>1
  <2>3. \A i \in 1 .. n : P[i] = P[i - 1] + Sizes[i]
    BY <1>2, SumsDef
  <2>4. \A i \in 0 .. n, j \in 0 .. n : i <= j => j \in i .. n
    BY <1>1
  <2>5. \A i \in 0 .. n : P[i] \in Nat
    BY <2>1, <2>2
  <2>6. \A i \in 0 .. n, j \in 0 .. n : i <= j => P[i] <= P[j]
    <3> HIDE DEF P, n
    <3>1. QED
      BY <2>1, <2>4
  <2>7. QED
    BY <2>3, <2>5, <2>6
<1>4. \A i \in 0 .. n, j \in 0 .. n : Bytes(i + 1, j) = P[j] - P[i]
  <2>1. \A i \in 0 .. n : (i + 1) - 1 = i
    BY <1>1
  <2>2. QED
    BY <2>1 DEF Bytes
<1>5. \A i \in 1 .. n : Bytes(i, i) = P[i] - P[i - 1]
  BY DEF Bytes
<1> HIDE DEF P, n
<1>6. \A i \in 1 .. n : i - 1 \in 0 .. n /\ i \in 0 .. n
  BY <1>1
<1>7. ASSUME NEW i \in 1 .. n PROVE Bytes(i, i) = capture[i].size
  <2>1. P[i] \in Nat /\ P[i - 1] \in Nat /\ Sizes[i] \in Nat /\ Sizes[i] = capture[i].size
    BY <1>1, <1>2, <1>3, <1>6
  <2>2. P[i] = P[i - 1] + Sizes[i] /\ Bytes(i, i) = P[i] - P[i - 1]
    BY <1>3, <1>5
  <2>3. QED
    BY <2>1, <2>2
<1>8. \A i \in 0 .. n, j \in 0 .. n : i <= j => Bytes(i + 1, j) \in Nat
  BY <1>3, <1>4
<1>9. \A i \in 0 .. n : Bytes(i + 1, i) = 0
  BY <1>3, <1>4
<1>10. \A i \in 0 .. n, j \in 0 .. n, k \in 0 .. n : Bytes(i + 1, k) = Bytes(i + 1, j) + Bytes(j + 1, k)
  BY <1>3, <1>4
<1>11. QED
  BY <1>7, <1>8, <1>9, <1>10 DEF n

\* From block i on, there is a rest of the file.
LEMMA RestFacts ==
    ASSUME capture \in Captures
    PROVE  /\ \A i \in 1 .. Len(capture) + 1 : Rest(i) \in Nat
           /\ \A i \in 1 .. Len(capture) + 1, j \in 1 .. Len(capture) + 1 :
                i <= j => Bytes(i, j - 1) \in Nat /\ Rest(i) = Bytes(i, j - 1) + Rest(j)
           /\ Rest(Len(capture) + 1) = 0
<1>1. Len(capture) \in Nat
  BY CaptureFacts
<1>2. \A i \in 1 .. Len(capture) + 1 : i - 1 \in 0 .. Len(capture) /\ (i - 1) + 1 = i
  BY <1>1
<1>3. Len(capture) \in 0 .. Len(capture)
  BY <1>1
<1>4. \A i \in 1 .. Len(capture) + 1 : Rest(i) \in Nat
  <2> SUFFICES ASSUME NEW i \in 1 .. Len(capture) + 1 PROVE Rest(i) \in Nat
    OBVIOUS
  <2>1. i - 1 <= Len(capture)
    BY <1>1
  <2>2. Bytes((i - 1) + 1, Len(capture)) \in Nat
    BY <1>2, <1>3, <2>1, BytesFacts
  <2>3. QED
    BY <1>2, <2>2 DEF Rest
<1>5. ASSUME NEW i \in 1 .. Len(capture) + 1, NEW j \in 1 .. Len(capture) + 1, i <= j
      PROVE  Bytes(i, j - 1) \in Nat /\ Rest(i) = Bytes(i, j - 1) + Rest(j)
  <2>1. i - 1 <= j - 1
    BY <1>1, <1>5
  <2>2. Bytes((i - 1) + 1, j - 1) \in Nat
    BY <1>2, <2>1, BytesFacts
  <2> DEFINE a == i - 1
             b == j - 1
             n == Len(capture)
  <2>3. Bytes(a + 1, n) = Bytes(a + 1, b) + Bytes(b + 1, n)
    <3>1. a \in 0 .. n /\ b \in 0 .. n /\ n \in 0 .. n
      BY <1>2, <1>3
    <3> HIDE DEF a, b
    <3>2. QED
      BY <3>1, BytesFacts
  <2>4. QED
    BY <1>2, <2>2, <2>3 DEF Rest
<1>6. Rest(Len(capture) + 1) = 0
  BY <1>3, BytesFacts DEF Rest
<1>7. QED
  BY <1>4, <1>5, <1>6

\* The blocks a window holds whole come first in it.
LEMMA WholeFacts ==
    ASSUME WindowInv
    PROVE  /\ Whole \subseteq next .. Len(capture)
           /\ Whole = {} => LastWhole = next - 1
           /\ Whole # {} => LastWhole \in Whole /\ LastWhole \in next .. Len(capture)
           /\ \A i \in Whole : i <= LastWhole
<1>1. Len(capture) \in Nat /\ next \in 1 .. Len(capture) + 1
  BY CaptureFacts DEF WindowInv
<1>2. Whole \subseteq next .. Len(capture)
  BY DEF Whole
<1> DEFINE S == Whole \cup {next - 1}
<1>3. S \subseteq 0 .. Len(capture) /\ S # {}
  BY <1>1, <1>2
<1>4. LastWhole \in S /\ \A y \in S : y <= LastWhole
  <2> HIDE DEF S
  <2>1. 0 \in Int /\ Len(capture) \in Int
    BY <1>1
  <2>2. Max(S) \in S /\ \A y \in S : y <= Max(S)
    BY <1>3, <2>1, MaxOf
  <2>3. QED
    BY <2>2 DEF LastWhole, S
<1>5. ASSUME Whole # {} PROVE LastWhole \in Whole
  <2>1. PICK i \in Whole : TRUE
    BY <1>5
  <2>2. i \in next .. Len(capture) /\ i <= LastWhole
    BY <1>2, <1>4, <2>1
  <2>3. LastWhole # next - 1
    BY <1>1, <2>2
  <2>4. QED
    BY <1>4, <2>3
<1>6. QED
  BY <1>2, <1>4, <1>5

\* The capture stays, and so do the places of its blocks.
LEMMA SameRest ==
    ASSUME capture' = capture
    PROVE  /\ \A i : Rest(i)' = Rest(i)
           /\ Rest(next)' = Rest(next')
BY DEF Rest, Bytes, Sizes

\* What a fill leaves, of a window that may have seen the end of the file.
LEMMA FillSets ==
    ASSUME capture \in Captures, eof \in BOOLEAN, NEW cap \in Nat \ {0},
           NEW from \in 1 .. Len(capture) + 1, Fill(cap, from), eof => Rest(from) < cap
    PROVE  /\ valid' = Min({cap, Rest(from)}) /\ valid' \in 0 .. cap
           /\ eof' \in BOOLEAN /\ (eof' <=> Rest(from) < cap)
<1>1. Rest(from) \in Nat
  BY RestFacts
<1>2. valid' = Min({cap, Rest(from)}) /\ eof' = (eof \/ Rest(from) < cap)
  BY DEF Fill, Rest
<1>3. Min({cap, Rest(from)}) = IF cap <= Rest(from) THEN cap ELSE Rest(from)
  BY <1>1, MinOfTwo
<1>4. valid' \in 0 .. cap
  BY <1>1, <1>2, <1>3
<1>5. QED
  BY <1>2, <1>4

\* A window in which no block is whole, before the end of the file, is full, and the
\* block it starts with is no smaller.
LEMMA NoRoom ==
    ASSUME WindowInv, pc = "scan", valid > 0, Whole = {}, ~eof
    PROVE  Full /\ next \in 1 .. Len(capture) /\ capacity <= capture[next].size
<1>1. /\ capture \in Captures /\ capacity \in Nat \ {0} /\ next \in 1 .. Len(capture) + 1
      /\ valid = Min({capacity, Rest(next)}) /\ ~ (Rest(next) < capacity)
  BY DEF WindowInv
<1>2. Len(capture) \in Nat
  BY <1>1, CaptureFacts
<1>3. Rest(next) \in Nat /\ Rest(Len(capture) + 1) = 0
  BY <1>1, RestFacts
<1>4. valid = capacity /\ capacity <= Rest(next)
  <2>1. Min({capacity, Rest(next)}) = IF capacity <= Rest(next) THEN capacity ELSE Rest(next)
    BY <1>1, <1>3, MinOfTwo
  <2>2. QED
    BY <1>1, <1>3, <2>1
<1>5. next \in 1 .. Len(capture)
  <2>1. next # Len(capture) + 1
    BY <1>1, <1>3, <1>4
  <2>2. QED
    BY <1>1, <1>2, <2>1
<1>6. Bytes(next, next) = capture[next].size /\ capture[next].size \in Nat \ {0}
  BY <1>1, <1>5, BytesFacts, CaptureFacts
<1>7. CASE capture[next].kind = "cut"
  <2>1. next = Len(capture)
    BY <1>1, <1>5, <1>7, CaptureFacts
  <2>2. Rest(next) = Bytes(next, next)
    BY <2>1 DEF Rest
  <2>3. QED
    BY <1>4, <1>5, <1>6, <2>2 DEF Full
<1>8. CASE capture[next].kind # "cut"
  <2>1. next \notin Whole /\ next \in next .. Len(capture)
    BY <1>5
  <2>2. ~ (Bytes(next, next) <= valid)
    BY <1>8, <2>1 DEF Whole
  <2>3. QED
    BY <1>1, <1>4, <1>5, <1>6, <2>2 DEF Full
<1>9. QED
  BY <1>7, <1>8

\* The window before the first read.
LEMMA WindowInit == Init => WindowInv
<1> SUFFICES ASSUME Init PROVE WindowInv
  OBVIOUS
<1>1. capture \in Captures /\ args \in Commands /\ args.window \in Nat \ {0}
  BY CommandsAssumption DEF Init, Command
<1>2. Len(capture) \in Nat
  BY <1>1, CaptureFacts
<1>3. capacity = args.window /\ next = 1 /\ valid = 0 /\ eof = FALSE /\ pc = "start" /\ pc # "scan"
  BY DEF Init
<1>4. next \in 1 .. Len(capture) + 1 /\ valid \in 0 .. capacity
  BY <1>1, <1>2, <1>3
<1>5. QED
  BY <1>1, <1>3, <1>4 DEF WindowInv

\* A step that leaves the loop, or the window and the stage alone.
LEMMA WindowLeft ==
    ASSUME WindowInv, UNCHANGED inputs,
           UNCHANGED <<capacity, next>>, valid' \in 0 .. capacity, eof' \in BOOLEAN,
           pc' # "start", pc' # "scan"
    PROVE  WindowInv'
BY DEF WindowInv, inputs

\* A step that leaves the window and the stage alone.
LEMMA WindowSame ==
    ASSUME WindowInv, UNCHANGED inputs, UNCHANGED windowVars, UNCHANGED pc
    PROVE  WindowInv'
<1>1. capture' = capture /\ Rest(next)' = Rest(next)
  BY SameRest DEF inputs, windowVars
<1>2. QED
  BY <1>1 DEF WindowInv, inputs, windowVars

\* A step that fills the window from its new start on.
LEMMA WindowFilled ==
    ASSUME WindowInv, UNCHANGED inputs, pc' = "scan",
           capacity' \in Nat \ {0}, next' \in 1 .. Len(capture) + 1,
           capacity' = capacity \/ \E i \in DOMAIN capture : capacity' <= 2 * capture[i].size,
           Fill(capacity', next'), eof => Rest(next') < capacity'
    PROVE  WindowInv'
<1>1. capture \in Captures /\ eof \in BOOLEAN
  BY DEF WindowInv
<1>2. /\ valid' = Min({capacity', Rest(next')}) /\ valid' \in 0 .. capacity'
      /\ eof' \in BOOLEAN /\ (eof' <=> Rest(next') < capacity')
  BY <1>1, FillSets
<1>3. Rest(next)' = Rest(next') /\ capture' = capture /\ args' = args
  BY SameRest DEF inputs
<1>4. capacity' = args.window \/ \E i \in DOMAIN capture : capacity' <= 2 * capture[i].size
  BY DEF WindowInv
<1>5. QED
  BY <1>2, <1>3, <1>4 DEF WindowInv

\* What the loop does to the window.
LEMMA RefillWindow ==
    ASSUME WindowInv, NoWholeBlock
    PROVE  WindowInv'
<1>1. /\ pc = "scan" /\ valid > 0 /\ Whole = {} /\ Refill /\ next' = next /\ UNCHANGED inputs
      /\ capacity \in Nat \ {0} /\ capture \in Captures /\ next \in 1 .. Len(capture) + 1
      /\ valid \in 0 .. capacity /\ eof \in BOOLEAN
      /\ (capacity = args.window \/ \E i \in DOMAIN capture : capacity <= 2 * capture[i].size)
  BY DEF NoWholeBlock, WindowInv
<1>2. CASE eof
  <2>1. pc' = "close" /\ UNCHANGED <<capacity, valid, eof>>
    BY <1>1, <1>2 DEF Refill
  <2>2. QED
    BY <1>1, <2>1, WindowLeft
<1>3. CASE ~eof
  <2>1. capacity' = 2 * capacity /\ Fill(capacity', next) /\ pc' = pc
    BY <1>1, <1>3, NoRoom DEF Refill
  <2>2. next \in DOMAIN capture /\ capacity <= capture[next].size /\ capture[next].size \in Nat \ {0}
    BY <1>1, <1>3, NoRoom, CaptureFacts
  <2>3. capacity' \in Nat \ {0} /\ \E i \in DOMAIN capture : capacity' <= 2 * capture[i].size
    <3>1. capacity' \in Nat \ {0} /\ capacity' <= 2 * capture[next].size
      BY <1>1, <2>1, <2>2
    <3>2. QED
      BY <2>2, <3>1
  <2>4. Fill(capacity', next') /\ pc' = "scan"
    BY <1>1, <2>1
  <2>5. QED
    BY <1>1, <1>3, <2>3, <2>4, WindowFilled
<1>4. QED
  BY <1>1, <1>2, <1>3

\* The blocks done go, and the room they leave is filled.
LEMMA ConsumeWindow ==
    ASSUME WindowInv, pc = "scan", Whole # {}, UNCHANGED inputs, Consume
    PROVE  WindowInv'
<1>1. /\ capture \in Captures /\ capacity \in Nat \ {0} /\ next \in 1 .. Len(capture) + 1
      /\ valid = Min({capacity, Rest(next)}) /\ (eof <=> Rest(next) < capacity)
      /\ valid \in 0 .. capacity /\ eof \in BOOLEAN
      /\ (capacity = args.window \/ \E i \in DOMAIN capture : capacity <= 2 * capture[i].size)
  BY DEF WindowInv
<1>2. Len(capture) \in Nat /\ LastWhole \in Whole /\ LastWhole \in next .. Len(capture)
  BY <1>1, CaptureFacts, WholeFacts
<1>3. next' = LastWhole + 1 /\ capacity' = capacity /\ next' - 1 = LastWhole
      /\ next' \in 1 .. Len(capture) + 1 /\ next <= next'
  BY <1>1, <1>2 DEF Consume
<1>4. CASE args.take # MaxU64 /\ seen' >= SliceEnd
  <2>1. pc' = "close" /\ valid' = valid - Bytes(next, LastWhole) /\ eof' = eof
    BY <1>4 DEF Consume
  <2>2. Bytes(next, LastWhole) <= valid /\ Bytes(next, LastWhole) \in Nat
    <3>1. Bytes(next, next' - 1) \in Nat
      BY <1>1, <1>3, RestFacts
    <3>2. Bytes(next, LastWhole) <= valid
      BY <1>2 DEF Whole
    <3>3. QED
      BY <1>3, <3>1, <3>2
  <2>3. valid' \in 0 .. capacity
    <3> DEFINE b == Bytes(next, LastWhole)
    <3> HIDE DEF b
    <3>1. QED
      BY <1>1, <2>1, <2>2 DEF b
  <2>4. WindowInv'
    BY <1>1, <1>3, <2>1, <2>3 DEF WindowInv, inputs
  <2>5. QED
    BY <2>4
<1>5. CASE ~ (args.take # MaxU64 /\ seen' >= SliceEnd)
  <2>1. Fill(capacity', next') /\ pc' = "scan"
    BY <1>3, <1>5 DEF Consume
  <2>2. Rest(next) \in Nat /\ Rest(next') \in Nat /\ Rest(next') <= Rest(next)
    <3>1. Rest(next) = Bytes(next, next' - 1) + Rest(next') /\ Bytes(next, next' - 1) \in Nat
      BY <1>1, <1>3, RestFacts
    <3>2. Rest(next) \in Nat /\ Rest(next') \in Nat
      BY <1>1, <1>3, RestFacts
    <3> DEFINE b == Bytes(next, next' - 1)
    <3> HIDE DEF b
    <3>3. QED
      BY <3>1, <3>2 DEF b
  <2>3. eof => Rest(next') < capacity'
    BY <1>1, <1>3, <2>2
  <2>4. capacity' = capacity \/ \E i \in DOMAIN capture : capacity' <= 2 * capture[i].size
    BY <1>3
  <2>5. QED
    BY <1>1, <1>3, <2>1, <2>3, <2>4, WindowFilled
<1>6. QED
  BY <1>4, <1>5

\* Every step leaves the window as it should be.
LEMMA WindowKept == ASSUME WindowInv, [Next]_vars PROVE WindowInv'
<1>1. /\ capacity \in Nat \ {0} /\ valid \in 0 .. capacity /\ eof \in BOOLEAN
      /\ next \in 1 .. Len(capture) + 1 /\ capture \in Captures
  BY DEF WindowInv
<1>2. ASSUME UNCHANGED inputs, UNCHANGED windowVars, pc' # "start", pc' # "scan" PROVE WindowInv'
  <2>1. UNCHANGED <<capacity, next>> /\ valid' \in 0 .. capacity /\ eof' \in BOOLEAN
    BY <1>1, <1>2 DEF windowVars
  <2>2. QED
    BY <1>2, <2>1, WindowLeft
<1>3. CASE CannotStart
  BY <1>2, <1>3 DEF CannotStart, Finish
<1>4. CASE Start
  <2>1. /\ pc = "start" /\ pc' = "scan" /\ UNCHANGED inputs /\ capacity' = capacity /\ next' = next
        /\ Fill(capacity, next) /\ ~eof
    BY <1>4 DEF Start, WindowInv
  <2>2. Fill(capacity', next')
    BY <2>1
  <2>3. next' \in 1 .. Len(capture) + 1 /\ capacity' \in Nat \ {0}
    BY <1>1, <2>1
  <2>4. QED
    BY <2>1, <2>2, <2>3, WindowFilled
<1>5. CASE LldpRulesFail \/ ScanFails \/ WindowFails
  BY <1>2, <1>5 DEF LldpRulesFail, ScanFails, WindowFails, GiveUp, Finish
<1>6. CASE LoopDone
  BY <1>2, <1>6 DEF LoopDone
<1>7. CASE NoWholeBlock
  BY <1>7, RefillWindow
<1>8. CASE ProcessWindow
  <2>1. pc = "scan" /\ Whole # {} /\ Consume /\ UNCHANGED inputs
    BY <1>8 DEF ProcessWindow
  <2>2. QED
    BY <2>1, ConsumeWindow
<1>9. CASE ClosePackets
  BY <1>2, <1>9 DEF ClosePackets, AfterPackets, Finish
<1>10. ASSUME NEW t, SkipTable(t) \/ WriteTable(t) \/ TableFails(t) PROVE WindowInv'
  <2>1. UNCHANGED inputs /\ UNCHANGED windowVars /\ pc = "pdu"
        /\ (NextTable(TRUE) \/ NextTable(FALSE))
    BY <1>10 DEF SkipTable, WriteTable, TableFails, AtTable
  <2>2. pc' \in {"pdu", "lldp", "done"}
    BY <2>1 DEF NextTable, AfterPdus, Finish
  <2>3. QED
    BY <1>2, <2>1, <2>2
<1>11. CASE WriteLldp \/ LldpFails
  BY <1>2, <1>11 DEF WriteLldp, LldpFails, Finish
<1>12. CASE UNCHANGED vars
  BY <1>12, WindowSame DEF vars
<1>13. QED
  BY <1>3, <1>4, <1>5, <1>6, <1>7, <1>8, <1>9, <1>10, <1>11, <1>12 DEF Next

------------------------------------------------------------------------------
(* What the loop has made of the blocks before the window. *)

\* The PDU tables, and the rows of the packets table.
Tables == Files \ {"packets"}
Row == [id : Nat, link : Links, pdus : SUBSET Tables]

\* The current section is the last, and what was decoded is of packets seen.
PacketInv ==
    /\ sections \in Seq(Seq(Links)) /\ section = Len(sections)
    /\ seen \in Nat /\ emitted \in 0 .. seen
    /\ decoded \in [Tables -> Seq(Nat)]
    /\ \A t \in Tables : \A k \in DOMAIN decoded[t] : decoded[t][k] < seen

\* What classify_block starts a window from.
BeforeWindow == [sections |-> sections, section |-> section, packets |-> <<>>]

\* The blocks of a window follow one another in the capture.
LEMMA RefsFacts ==
    ASSUME WindowInv, Whole # {}
    PROVE  /\ Refs \in Seq(Block) /\ Len(Refs) = LastWhole - next + 1
           /\ Len(Refs) \in Nat \ {0} /\ next - 1 + Len(Refs) = LastWhole
           /\ \A k \in 1 .. Len(Refs) : Refs[k] = capture[next - 1 + k]
<1>1. /\ capture \in Seq(Block) /\ Len(capture) \in Nat /\ next \in 1 .. Len(capture) + 1
      /\ LastWhole \in next .. Len(capture)
  BY CaptureFacts, WholeFacts DEF WindowInv
<1> DEFINE e == LastWhole
<1> HIDE DEF e
<1>2. e \in next .. Len(capture) /\ Refs = SubSeq(capture, next, e)
  BY <1>1 DEF e, Refs
<1>3. Refs \in Seq(Block) /\ Len(Refs) = e - next + 1 /\ \A k \in 1 .. e - next + 1 : Refs[k] = capture[next + k - 1]
  <2>1. e \in Nat /\ next \in Nat /\ next >= 1 /\ next <= e /\ e <= Len(capture)
    BY <1>1, <1>2
  <2>2. QED
    BY <1>1, <1>2, <2>1
<1>4. \A k \in 1 .. e - next + 1 : next + k - 1 = next - 1 + k
  BY <1>1, <1>2
<1>5. QED
  BY <1>1, <1>2, <1>3, <1>4 DEF e

\* What a window makes of the sections and packets is well formed.
LEMMA ClassifiedKept ==
    ASSUME WindowInv, PacketInv, Whole # {}
    PROVE  Classified \in Kept
<1>1. <<>> \in Seq(Packet)
  OBVIOUS
<1>2. BeforeWindow \in Kept
  BY <1>1 DEF PacketInv, Kept, BeforeWindow
<1>3. Refs \in Seq(Block) /\ Len(Refs) \in 0 .. Len(Refs)
  BY RefsFacts
<1>4. Classifying(BeforeWindow, Refs)[Len(Refs)] \in Kept
  BY <1>2, <1>3, ClassifyingDef
<1>5. QED
  BY <1>4 DEF Classified, BeforeWindow

\* The part of n packets that --drop and --count keep.
LEMMA SliceFacts ==
    ASSUME args \in Commands, seen \in Nat, NEW n \in Nat
    PROVE  Slice(n).lo \in 0 .. n /\ Slice(n).hi \in 0 .. n
<1>1. args.drop \in Nat /\ args.take \in Nat /\ MaxU64 \in Nat \ {0} /\ SliceEnd \in Nat
  <2>1. args.drop \in Nat /\ args.take \in Nat /\ MaxU64 \in Nat \ {0}
    BY CommandsAssumption, MaxU64Assumption DEF Command
  <2>2. SliceEnd \in Nat
    BY <2>1 DEF SliceEnd
  <2>3. QED
    BY <2>1, <2>2
<1>2. Slice(n).lo = (IF args.drop > seen THEN Min({args.drop - seen, n}) ELSE 0)
      /\ Slice(n).hi = (IF args.take = MaxU64 THEN n
                        ELSE IF SliceEnd > seen THEN Min({SliceEnd - seen, n}) ELSE 0)
  BY DEF Slice
<1>3. \A x \in Nat : x > seen => Min({x - seen, n}) \in 0 .. n
  <2> SUFFICES ASSUME NEW x \in Nat, x > seen PROVE Min({x - seen, n}) \in 0 .. n
    OBVIOUS
  <2> DEFINE d == x - seen
  <2>1. d \in Nat
    OBVIOUS
  <2> HIDE DEF d
  <2>2. Min({d, n}) = IF d <= n THEN d ELSE n
    BY <2>1, MinOfTwo
  <2>3. QED
    BY <2>1, <2>2 DEF d
<1>4. Slice(n).lo \in 0 .. n
  BY <1>1, <1>2, <1>3
<1> DEFINE e == SliceEnd
           h == Slice(n).hi
<1>5. h = IF args.take = MaxU64 THEN n ELSE IF e > seen THEN Min({e - seen, n}) ELSE 0
  BY <1>2
<1>6. e \in Nat
  BY <1>1
<1> HIDE DEF e, h
<1>7. h \in 0 .. n
  <2>1. e > seen => Min({e - seen, n}) \in 0 .. n
    BY <1>3, <1>6
  <2>2. h = n \/ h = 0 \/ (e > seen /\ h = Min({e - seen, n}))
    BY <1>5
  <2>3. QED
    BY <2>1, <2>2
<1>8. QED
  BY <1>4, <1>7 DEF h

\* A link type, whatever interface is named.
LEMMA LinkTyped ==
    ASSUME NEW c \in Kept, NEW p \in Packet, p.section \in 1 .. Len(c.sections)
    PROVE  Link(c, p) \in Links
<1>1. c.sections \in Seq(Seq(Links)) /\ p.block \in Block
  BY DEF Kept, Packet
<1>2. p.block.link \in Links /\ Named(p.block) \in Nat /\ "none" \in Links
  BY <1>1, BlockFacts DEF Links
<1> DEFINE links == c.sections[p.section]
<1>3. links \in Seq(Links)
  BY <1>1
<1> HIDE DEF links
<1>4. Named(p.block) < Len(links) => links[Named(p.block) + 1] \in Links
  BY <1>2, <1>3
<1>5. QED
  BY <1>2, <1>4 DEF Link, links

\* How many rows a window of n packets gives.
SliceLength(n) == IF Slice(n).lo <= Slice(n).hi THEN Slice(n).hi - Slice(n).lo ELSE 0

\* The rows of a window: which packets they are of.
LEMMA RowsFacts ==
    ASSUME args \in Commands, seen \in Nat, NEW c \in Kept
    PROVE  LET n == Len(c.packets)
               lo == Slice(n).lo
           IN /\ n \in Nat /\ SliceLength(n) \in 0 .. n /\ lo \in Nat /\ lo + SliceLength(n) <= n
              /\ RowsOf(c) \in Seq(Row) /\ Len(RowsOf(c)) = SliceLength(n)
              /\ \A k \in 1 .. SliceLength(n) :
                   /\ lo + k \in 1 .. n
                   /\ RowsOf(c)[k].id = seen + lo + k - 1
                   /\ RowsOf(c)[k].link = Link(c, c.packets[lo + k])
<1> DEFINE n == Len(c.packets)
           lo == Slice(n).lo
           hi == Slice(n).hi
           m == SliceLength(n)
           row(k) == [id |-> seen + lo + k - 1, link |-> Link(c, c.packets[lo + k]),
                      pdus |-> IF c.packets[lo + k].block.parses
                               THEN c.packets[lo + k].block.pdus ELSE {}]
<1>1. n \in Nat /\ c.packets \in Seq(Packet)
      /\ \A k \in 1 .. n : c.packets[k] \in Packet /\ c.packets[k].section \in 1 .. Len(c.sections)
  BY DEF Kept
<1>2. lo \in 0 .. n /\ hi \in 0 .. n
  BY <1>1, SliceFacts
<1>3. m = IF lo <= hi THEN hi - lo ELSE 0
  BY DEF SliceLength
<1>4. Max({hi - lo, 0}) = m
  <2> HIDE DEF lo, hi, m
  <2>1. hi - lo \in Int /\ 0 \in Int
    BY <1>2
  <2> DEFINE d == hi - lo
  <2>2. Max({d, 0}) = IF d <= 0 THEN 0 ELSE d
    <3> HIDE DEF d
    <3>1. QED
      BY <2>1, MaxOfTwo DEF d
  <2>3. QED
    BY <1>2, <1>3, <2>2
<1>5. m \in 0 .. n /\ lo + m <= n /\ lo \in Nat
  <2> HIDE DEF lo, hi, m, n
  <2>1. QED
    BY <1>1, <1>2, <1>3
<1>6. RowsOf(c) = [k \in 1 .. m |-> row(k)]
  BY <1>4 DEF RowsOf
<1>7. ASSUME NEW k \in 1 .. m
      PROVE  lo + k \in 1 .. n /\ row(k) \in Row
  <2>1. lo + k \in 1 .. n /\ seen + lo + k - 1 \in Nat
    <3> HIDE DEF lo, m, n
    <3>1. QED
      BY <1>1, <1>5
  <2> DEFINE p == c.packets[lo + k]
             id == seen + lo + k - 1
             l == Link(c, p)
             u == IF p.block.parses THEN p.block.pdus ELSE {}
  <2>2. p \in Packet /\ p.section \in 1 .. Len(c.sections)
    <3> HIDE DEF lo, m, n
    <3>1. QED
      BY <1>1, <2>1
  <2>3. p.block \in Block
    BY <2>2 DEF Packet
  <2>4. u \in SUBSET Tables
    BY <2>3 DEF Block, Tables
  <2>5. l \in Links
    BY <2>2, LinkTyped
  <2>6. row(k) = [id |-> id, link |-> l, pdus |-> u] /\ id \in Nat
    BY <2>1
  <2> HIDE DEF id, l, u, p, row
  <2>7. row(k) \in Row
    BY <2>4, <2>5, <2>6 DEF Row
  <2>8. QED
    BY <2>1, <2>7
<1>8. /\ RowsOf(c) \in Seq(Row) /\ Len(RowsOf(c)) = m
      /\ \A k \in 1 .. m : RowsOf(c)[k] = row(k)
  <2> HIDE DEF row, lo, m, n
  <2>1. RowsOf(c) \in [1 .. m -> Row] /\ m \in Nat
    BY <1>5, <1>6, <1>7
  <2>2. QED
    BY <1>6, <2>1
<1>9. \A k \in 1 .. m : row(k).id = seen + lo + k - 1 /\ row(k).link = Link(c, c.packets[lo + k])
  OBVIOUS
<1> HIDE DEF row, lo, m, n
<1>10. \A k \in 1 .. m : /\ lo + k \in 1 .. n
                         /\ RowsOf(c)[k].id = seen + lo + k - 1
                         /\ RowsOf(c)[k].link = Link(c, c.packets[lo + k])
  BY <1>7, <1>8, <1>9
<1>11. QED
  BY <1>1, <1>5, <1>8, <1>10 DEF lo, m, n

\* The numbers of the rows.
LEMMA IdsFacts ==
    ASSUME NEW rows \in Seq(Row)
    PROVE  /\ Ids(rows) \in Seq(Nat) /\ Len(Ids(rows)) = Len(rows) /\ DOMAIN Ids(rows) = 1 .. Len(rows)
           /\ \A k \in 1 .. Len(rows) : Ids(rows)[k] = rows[k].id
<1>1. Len(rows) \in Nat /\ DOMAIN rows = 1 .. Len(rows) /\ \A k \in 1 .. Len(rows) : rows[k].id \in Nat
  <2>1. \A k \in 1 .. Len(rows) : rows[k] \in Row
    OBVIOUS
  <2>2. QED
    BY <2>1 DEF Row
<1>2. Ids(rows) \in [1 .. Len(rows) -> Nat] /\ \A k \in 1 .. Len(rows) : Ids(rows)[k] = rows[k].id
  BY <1>1 DEF Ids
<1>3. QED
  BY <1>1, <1>2

\* The numbers of rows behind others come behind theirs.
LEMMA IdsConcat ==
    ASSUME NEW r \in Seq(Row), NEW s \in Seq(Row)
    PROVE  Ids(r \o s) = Ids(r) \o Ids(s)
<1> DEFINE u == r \o s
           a == Ids(r)
           b == Ids(s)
           v == a \o b
           x == Ids(u)
           m == Len(r)
           n == Len(s)
<1>1. /\ u \in Seq(Row) /\ Len(u) = m + n /\ m \in Nat /\ n \in Nat
      /\ \A k \in 1 .. m + n : u[k] = IF k <= m THEN r[k] ELSE s[k - m]
  BY ConcatProperties
<1>2. /\ a \in Seq(Nat) /\ Len(a) = m /\ \A k \in 1 .. m : a[k] = r[k].id
  BY IdsFacts
<1>3. /\ b \in Seq(Nat) /\ Len(b) = n /\ \A k \in 1 .. n : b[k] = s[k].id
  BY IdsFacts
<1> HIDE DEF u, a, b, x, m, n
<1>4. /\ v \in Seq(Nat) /\ Len(v) = m + n
      /\ \A k \in 1 .. m + n : v[k] = IF k <= m THEN a[k] ELSE b[k - m]
  BY <1>2, <1>3, ConcatProperties
<1>5. x \in Seq(Nat) /\ Len(x) = m + n /\ \A k \in 1 .. m + n : x[k] = u[k].id
  BY <1>1, IdsFacts DEF x
<1> HIDE DEF v
<1>6. ASSUME NEW k \in 1 .. m + n PROVE x[k] = v[k]
  <2>1. CASE k <= m
    <3>1. k \in 1 .. m
      BY <1>1, <2>1
    <3>2. QED
      BY <1>1, <1>2, <1>4, <1>5, <2>1, <3>1
  <2>2. CASE k > m
    <3>1. k - m \in 1 .. n /\ ~ (k <= m)
      BY <1>1, <2>2
    <3>2. u[k] = s[k - m] /\ v[k] = b[k - m]
      BY <1>1, <1>4, <3>1
    <3>3. QED
      BY <1>3, <1>5, <3>1, <3>2
  <2>3. QED
    BY <1>1, <2>1, <2>2
<1>7. x = v
  BY <1>1, <1>4, <1>5, <1>6
<1>8. QED
  BY <1>7 DEF u, v, x, a, b

\* What the decoders find in rows is the numbers of those with table t.
Found(rows, t) == Ids(Picked(rows, {k \in DOMAIN rows : Decodes(rows[k], t)}))

\* What is found is the number of a packet.
LEMMA FoundTyped ==
    ASSUME NEW rows \in Seq(Row), NEW e \in Nat, \A k \in 1 .. Len(rows) : rows[k].id < e, NEW t
    PROVE  Found(rows, t) \in Seq(Nat) /\ \A k \in 1 .. Len(Found(rows, t)) : Found(rows, t)[k] < e
<1> DEFINE T == {r \in Row : r.id < e}
           I == {k \in DOMAIN rows : Decodes(rows[k], t)}
           p == Picked(rows, I)
<1>1. rows \in Seq(T)
  <2>1. Len(rows) \in Nat /\ rows = [k \in 1 .. Len(rows) |-> rows[k]] /\ \A k \in 1 .. Len(rows) : rows[k] \in T
    OBVIOUS
  <2> HIDE DEF T
  <2>2. rows \in [1 .. Len(rows) -> T]
    BY <2>1
  <2>3. QED
    BY <2>1, <2>2
<1>2. p \in Seq(T)
  <2> HIDE DEF T, I
  <2>1. QED
    BY <1>1, PickedTyped
<1> HIDE DEF p
<1>3. p \in Seq(Row) /\ Len(p) \in Nat /\ \A k \in 1 .. Len(p) : p[k].id < e
  <2>1. Len(p) \in Nat /\ p = [k \in 1 .. Len(p) |-> p[k]] /\ \A k \in 1 .. Len(p) : p[k] \in T
    <3> HIDE DEF T
    <3>1. QED
      BY <1>2
  <2>2. p \in [1 .. Len(p) -> Row]
    BY <2>1
  <2>3. QED
    BY <2>1, <2>2
<1>4. /\ Ids(p) \in Seq(Nat) /\ Len(Ids(p)) = Len(p)
      /\ \A k \in 1 .. Len(p) : Ids(p)[k] = p[k].id
  BY <1>3, IdsFacts
<1>5. Found(rows, t) = Ids(p)
  BY DEF Found, p
<1>6. QED
  BY <1>3, <1>4, <1>5

\* A window taken, as packets seen, emitted and decoded.
LEMMA Taken ==
    ASSUME WindowInv, PacketInv, Whole # {}, TakePackets(Classified, RowsOf(Classified))
    PROVE  /\ PacketInv'
           /\ RowsOf(Classified) \in Seq(Row)
           /\ emitted' = emitted + Len(RowsOf(Classified)) /\ Len(RowsOf(Classified)) \in Nat
           /\ seen' = seen + Len(Classified.packets)
           /\ \A t \in Tables : decoded'[t] = decoded[t] \o Found(RowsOf(Classified), t)
<1> DEFINE c == Classified
           rows == RowsOf(c)
           n == Len(c.packets)
           e == seen + n
<1>1. c \in Kept /\ args \in Commands /\ seen \in Nat /\ emitted \in 0 .. seen
  BY ClassifiedKept DEF WindowInv, PacketInv
<1> HIDE DEF c
<1>2. /\ n \in Nat /\ rows \in Seq(Row) /\ Len(rows) \in 0 .. n
      /\ \A k \in 1 .. Len(rows) : rows[k].id < e
  <2> DEFINE lo == Slice(n).lo
             m == SliceLength(n)
  <2>1. /\ n \in Nat /\ m \in 0 .. n /\ lo \in Nat /\ lo + m <= n /\ rows \in Seq(Row) /\ Len(rows) = m
        /\ \A k \in 1 .. m : rows[k].id = seen + lo + k - 1
    BY <1>1, RowsFacts
  <2> HIDE DEF rows, n, lo, m
  <2>2. QED
    BY <1>1, <2>1
<1>3. /\ sections' = c.sections /\ section' = c.section /\ seen' = e /\ emitted' = emitted + Len(rows)
      /\ decoded' = [t \in DOMAIN decoded |-> decoded[t] \o Found(rows, t)]
  BY DEF TakePackets, Found, c
<1> HIDE DEF rows, n
<1>4. e \in Nat /\ emitted + Len(rows) \in 0 .. e /\ seen <= e
  BY <1>1, <1>2
<1>5. c.sections \in Seq(Seq(Links)) /\ c.section = Len(c.sections)
  BY <1>1 DEF Kept
<1>6. ASSUME NEW t \in Tables
      PROVE  /\ decoded'[t] = decoded[t] \o Found(rows, t) /\ decoded'[t] \in Seq(Nat)
             /\ \A k \in DOMAIN decoded'[t] : decoded'[t][k] < e
  <2> DEFINE a == decoded[t]
             b == Found(rows, t)
             v == a \o b
  <2>1. a \in Seq(Nat) /\ \A k \in 1 .. Len(a) : a[k] < seen
    BY DEF PacketInv
  <2>2. b \in Seq(Nat) /\ \A k \in 1 .. Len(b) : b[k] < e
    BY <1>2, <1>4, FoundTyped
  <2>3. decoded'[t] = v
    BY <1>3 DEF PacketInv
  <2> HIDE DEF a, b, e
  <2>4. /\ v \in Seq(Nat) /\ Len(v) = Len(a) + Len(b)
        /\ \A k \in 1 .. Len(a) + Len(b) : v[k] = IF k <= Len(a) THEN a[k] ELSE b[k - Len(a)]
    BY <2>1, <2>2, ConcatProperties
  <2>5. Len(a) \in Nat /\ Len(b) \in Nat /\ (\A k \in 1 .. Len(a) : a[k] \in Nat)
    BY <2>1, <2>2
  <2>6. ASSUME NEW k \in 1 .. Len(v) PROVE v[k] < e
    <3>1. CASE k <= Len(a)
      <4>1. k \in 1 .. Len(a)
        BY <2>4, <2>5, <3>1
      <4>2. v[k] = a[k] /\ a[k] < seen /\ a[k] \in Nat
        BY <2>1, <2>4, <2>5, <3>1, <4>1
      <4>3. QED
        BY <1>1, <1>4, <4>2
    <3>2. CASE k > Len(a)
      <4>1. k - Len(a) \in 1 .. Len(b) /\ ~ (k <= Len(a))
        BY <2>4, <2>5, <3>2
      <4>2. QED
        BY <2>2, <2>4, <4>1
    <3>3. QED
      BY <2>4, <2>5, <3>1, <3>2
  <2>7. DOMAIN v = 1 .. Len(v)
    BY <2>4
  <2> HIDE DEF v
  <2>8. QED
    BY <2>3, <2>4, <2>6, <2>7 DEF a, b, v
<1>7. decoded' \in [Tables -> Seq(Nat)]
  <2>1. DOMAIN decoded = Tables
    BY DEF PacketInv
  <2>2. decoded' = [t \in Tables |-> decoded'[t]]
    BY <1>3, <2>1
  <2>3. QED
    BY <1>6, <2>2
<1>8. PacketInv'
  <2>1. Tables' = Tables
    BY DEF Tables, Files
  <2> HIDE DEF e
  <2>2. QED
    BY <1>3, <1>4, <1>5, <1>6, <1>7, <2>1 DEF PacketInv
<1>9. Len(rows) \in Nat
  BY <1>2
<1>10. \A t \in Tables : decoded'[t] = decoded[t] \o Found(rows, t)
  BY <1>6
<1> HIDE DEF e
<1>11. rows \in Seq(Row) /\ emitted' = emitted + Len(rows) /\ seen' = e
  BY <1>2, <1>3
<1>12. QED
  BY <1>8, <1>9, <1>10, <1>11 DEF c, rows, e, n

\* Steps that take no window leave what is known of the packets.
LEMMA PacketSame ==
    ASSUME PacketInv, UNCHANGED packetVars
    PROVE  PacketInv'
BY DEF PacketInv, packetVars, Tables, Files

\* Before the first window.
LEMMA PacketInit == Init => PacketInv
<1> SUFFICES ASSUME Init PROVE PacketInv
  OBVIOUS
<1>1. /\ sections = <<>> /\ section = 0 /\ seen = 0 /\ emitted = 0
      /\ decoded = [t \in Tables |-> <<>>]
  BY DEF Init, Tables
<1>2. <<>> \in Seq(Seq(Links)) /\ Len(<<>>) = 0 /\ <<>> \in Seq(Nat) /\ DOMAIN <<>> = {}
  OBVIOUS
<1>3. decoded \in [Tables -> Seq(Nat)] /\ \A t \in Tables : decoded[t] = <<>>
  BY <1>1, <1>2
<1>4. QED
  BY <1>1, <1>2, <1>3 DEF PacketInv

\* The two actions that take packets.
LEMMA WindowTaken ==
    ASSUME ProcessWindow \/ WindowFails
    PROVE  Whole # {} /\ TakePackets(Classified, RowsOf(Classified))
BY Zenon DEF ProcessWindow, WindowFails

\* Every step leaves what is known of the packets well formed.
LEMMA PacketKept == ASSUME WindowInv, PacketInv, [Next]_vars PROVE PacketInv'
<1>1. CASE ProcessWindow \/ WindowFails
  BY <1>1, WindowTaken, Taken
<1>2. CASE ~ (ProcessWindow \/ WindowFails)
  <2>1. UNCHANGED packetVars
    BY <1>2 DEF Next, vars, CannotStart, Start, LldpRulesFail, LoopDone, ScanFails, NoWholeBlock,
                ClosePackets, SkipTable, WriteTable, TableFails, WriteLldp, LldpFails
  <2>2. QED
    BY <2>1, PacketSame
<1>3. QED
  BY <1>1, <1>2

------------------------------------------------------------------------------
(* What the decoders find. *)

\* Nothing is found in no rows.
LEMMA FoundNothing ==
    ASSUME NEW rows \in Seq(Row), NEW t, ~ Asked(t) \/ rows = <<>>
    PROVE  Found(rows, t) = <<>>
<1> DEFINE I == {k \in DOMAIN rows : Decodes(rows[k], t)}
           n == Len(rows)
           p == Picked(rows, I)
<1>1. I = {} /\ n \in Nat
  BY DEF Decodes
<1>2. p \in Seq(Row) /\ Len(p) = 0
  <2>1. p \in Seq(Row)
    <3> HIDE DEF I
    <3>1. QED
      BY PickedTyped
  <2>2. n \in 0 .. Len(rows) /\ 0 \in 0 .. n /\ IsRange(I, n, 0, 0)
    BY <1>1 DEF IsRange
  <2>3. 0 \in 0 .. 0
    OBVIOUS
  <2> HIDE DEF I
  <2>4. Len(Picks(rows, I)[n]) = 0 - 0
    BY <2>2, <2>3, PicksRange
  <2>5. QED
    BY <2>1, <2>4 DEF Picked
<1> HIDE DEF p
<1>3. Ids(p) \in Seq(Nat) /\ Len(Ids(p)) = 0
  BY <1>2, IdsFacts
<1>4. Found(rows, t) = Ids(p)
  BY DEF Found, p
<1>5. QED
  BY <1>3, <1>4, EmptySeq

\* What is found in rows behind others comes behind what is found in those.
LEMMA FoundConcat ==
    ASSUME NEW r \in Seq(Row), NEW s \in Seq(Row), NEW t
    PROVE  Found(r \o s, t) = Found(r, t) \o Found(s, t)
<1> DEFINE D(rows) == {k \in DOMAIN rows : Decodes(rows[k], t)}
           u == r \o s
           m == Len(r)
           n == Len(s)
<1>1. /\ u \in Seq(Row) /\ Len(u) = m + n /\ m \in Nat /\ n \in Nat
      /\ \A k \in 1 .. m + n : u[k] = IF k <= m THEN r[k] ELSE s[k - m]
  BY ConcatProperties
<1>2. DOMAIN r = 1 .. m /\ DOMAIN s = 1 .. n /\ DOMAIN u = 1 .. m + n
  BY <1>1
<1> HIDE DEF u, m, n
<1>3. \A k \in 1 .. m : k \in D(u) <=> k \in D(r)
  <2> SUFFICES ASSUME NEW k \in 1 .. m PROVE k \in D(u) <=> k \in D(r)
    OBVIOUS
  <2>1. k \in 1 .. m + n /\ u[k] = r[k]
    BY <1>1
  <2>2. QED
    BY <1>2, <2>1
<1>4. \A k \in 1 .. n : m + k \in D(u) <=> k \in D(s)
  <2> SUFFICES ASSUME NEW k \in 1 .. n PROVE m + k \in D(u) <=> k \in D(s)
    OBVIOUS
  <2>1. m + k \in 1 .. m + n /\ ~ (m + k <= m) /\ (m + k) - m = k
    BY <1>1
  <2>2. u[m + k] = s[k]
    BY <1>1, <2>1
  <2>3. QED
    BY <1>2, <2>1, <2>2
<1> DEFINE I == D(r)
           J == D(s)
           K == D(u)
<1>5. Picked(r \o s, K) = Picked(r, I) \o Picked(s, J)
  <2>1. (\A i \in 1 .. Len(r) : i \in K <=> i \in I) /\ (\A j \in 1 .. Len(s) : Len(r) + j \in K <=> j \in J)
    BY <1>3, <1>4 DEF m, n
  <2> HIDE DEF I, J, K
  <2>2. QED
    BY <2>1, PickedConcat
<1>6. Picked(r, I) \in Seq(Row) /\ Picked(s, J) \in Seq(Row)
  <2> HIDE DEF I, J
  <2>1. QED
    BY PickedTyped
<1> DEFINE p == Picked(r, I)
           q == Picked(s, J)
<1>7. Found(r, t) = Ids(p) /\ Found(s, t) = Ids(q) /\ Found(r \o s, t) = Ids(p \o q)
  BY <1>5 DEF Found, u
<1> HIDE DEF p, q
<1>8. Ids(p \o q) = Ids(p) \o Ids(q)
  BY <1>6, IdsConcat DEF p, q
<1>9. QED
  BY <1>7, <1>8

\* Nothing is found by decoders that were not asked for, nor in no packets.
DecodedInv == \A t \in Tables : decoded[t] # <<>> => Asked(t) /\ emitted > 0

\* Only a table that was asked for gets numbers.
LEMMA DecodedKept ==
    ASSUME WindowInv, PacketInv, DecodedInv, [Next]_vars
    PROVE  DecodedInv'
<1>0. Tables' = Tables /\ (args' = args => \A t : Asked(t)' <=> Asked(t))
  BY DEF Tables, Files, Asked
<1>1. CASE ProcessWindow \/ WindowFails
  <2> DEFINE rows == RowsOf(Classified)
  <2>1. /\ rows \in Seq(Row) /\ Len(rows) \in Nat /\ emitted' = emitted + Len(rows) /\ emitted \in Nat
        /\ \A t \in Tables : decoded'[t] = decoded[t] \o Found(rows, t)
    BY <1>1, WindowTaken, Taken DEF PacketInv
  <2> HIDE DEF rows
  <2>2. args' = args
    BY <1>1 DEF ProcessWindow, WindowFails, GiveUp, inputs
  <2>3. ASSUME NEW t \in Tables, decoded'[t] # <<>> PROVE Asked(t) /\ emitted' > 0
    <3>1. CASE decoded[t] # <<>>
      BY <2>1, <3>1 DEF DecodedInv
    <3>2. CASE decoded[t] = <<>>
      <4>1. Found(rows, t) # <<>>
        <5>1. CASE Found(rows, t) = <<>>
          BY <2>1, <2>3, <3>2, <5>1
        <5>2. QED
          BY <5>1
      <4>2. Asked(t) /\ rows # <<>>
        BY <2>1, <4>1, FoundNothing
      <4>3. Len(rows) > 0
        BY <2>1, <4>2, EmptySeq
      <4>4. QED
        BY <2>1, <4>2, <4>3
    <3>3. QED
      BY <3>1, <3>2
  <2>4. QED
    BY <1>0, <2>2, <2>3 DEF DecodedInv
<1>2. CASE ~ (ProcessWindow \/ WindowFails)
  <2>1. UNCHANGED packetVars /\ UNCHANGED inputs
    BY <1>2 DEF Next, vars, CannotStart, Start, LldpRulesFail, LoopDone, ScanFails, NoWholeBlock,
                ClosePackets, SkipTable, WriteTable, TableFails, WriteLldp, LldpFails, GiveUp
  <2>2. QED
    BY <1>0, <2>1 DEF DecodedInv, packetVars, inputs
<1>3. QED
  BY <1>1, <1>2

------------------------------------------------------------------------------
(* The stages of run. *)

\* run has a result when it is done, and not before.
StageInv ==
    /\ pc \in {"start", "scan", "close", "pdu", "lldp", "done"}
    /\ exit \in {"none", "success", "failure"}
    /\ exit = "none" <=> pc # "done"
    /\ ok \in BOOLEAN /\ table \in 1 .. Len(PduTables) + 1
    /\ pc \in {"start", "scan", "close"} => table = 1
    /\ pc = "pdu" => table <= Len(PduTables)

\* The tables of write_pdu_tables are PDU tables, and not that of the LLDP engine.
LEMMA TablesFacts == Len(PduTables) \in Nat \ {0} /\ \A k \in 1 .. Len(PduTables) :
                       PduTables[k] \in ToSet(PduTables) /\ PduTables[k] \in Tables /\ PduTables[k] # "lldp"
<1>1. PduTables \in Seq(STRING) /\ PduTables # <<>> /\ {"packets", "lldp"} \cap ToSet(PduTables) = {}
  BY PduTablesAssumption
<1>2. Len(PduTables) \in Nat \ {0}
  BY <1>1, EmptySeq
<1>3. \A k \in 1 .. Len(PduTables) : PduTables[k] \in ToSet(PduTables)
  BY <1>1 DEF ToSet
<1>4. QED
  BY <1>1, <1>2, <1>3 DEF Tables, Files

\* At the start.
LEMMA StageInit == Init => StageInv
BY TablesFacts DEF Init, StageInv

\* Every step leaves the stage and the result in keeping.
LEMMA StageKept == ASSUME StageInv, [Next]_vars PROVE StageInv'
<1>1. CASE CannotStart \/ Start \/ LldpRulesFail \/ LoopDone \/ ScanFails \/ WindowFails
           \/ WriteLldp \/ LldpFails
  BY <1>1 DEF CannotStart, Start, LldpRulesFail, LoopDone, ScanFails, WindowFails, WriteLldp, LldpFails,
              GiveUp, Finish, pduVars, StageInv
<1>2. CASE NoWholeBlock
  BY <1>2 DEF NoWholeBlock, Refill, pduVars, StageInv
<1>3. CASE ProcessWindow
  BY <1>3 DEF ProcessWindow, Consume, pduVars, StageInv
<1>4. CASE ClosePackets
  BY <1>4, TablesFacts DEF ClosePackets, AfterPackets, Finish, pduVars, StageInv
<1>5. ASSUME NEW t, SkipTable(t) \/ WriteTable(t) \/ TableFails(t) PROVE StageInv'
  <2>1. pc = "pdu" /\ \E s \in BOOLEAN : NextTable(s)
    BY <1>5 DEF SkipTable, WriteTable, TableFails, AtTable
  <2>2. Len(PduTables) \in Nat /\ table \in 1 .. Len(PduTables)
    BY <2>1, TablesFacts DEF StageInv
  <2>3. QED
    BY <2>1, <2>2 DEF NextTable, AfterPdus, Finish, StageInv
<1>6. CASE UNCHANGED vars
  BY <1>6 DEF vars, pduVars, StageInv
<1>7. QED
  BY <1>1, <1>2, <1>3, <1>4, <1>5, <1>6 DEF Next

------------------------------------------------------------------------------
(* The writers: only the packets table stays open from one step to the next. *)

\* A file is a record of its three fields.
FileTyped(f) ==
    /\ f = [writer |-> f.writer, groups |-> f.groups, sealed |-> f.sealed]
    /\ f.writer \in {"none", "handedBack", "open", "freed"} /\ f.sealed \in BOOLEAN

\* Only the packets table has an open writer between two steps, in the loop or before its close.
WriterInv ==
    /\ DOMAIN files = Files
    /\ \A f \in Files : FileTyped(files[f])
    /\ \A f \in Files :
         files[f].writer = "open" => f = "packets" /\ pc \in {"scan", "close"}

\* A file that takes the place of another, and does not stay open.
LEMMA Replaced ==
    ASSUME WriterInv, NEW f, NEW r, files' = [files EXCEPT ![f] = r],
           FileTyped(r), r.writer # "open",
           f = "packets" \/ pc' = pc \/ pc \notin {"scan", "close"}
    PROVE  WriterInv'
<1>1. Files' = Files /\ DOMAIN files' = Files
  BY DEF WriterInv, Files
<1>2. \A g \in Files : files'[g] = IF g = f THEN r ELSE files[g]
  BY DEF WriterInv
<1>3. QED
  BY <1>1, <1>2 DEF WriterInv, FileTyped

\* The packets table, changed where it may be open.
LEMMA PacketsReplaced ==
    ASSUME WriterInv, NEW r, files' = [files EXCEPT !["packets"] = r], FileTyped(r),
           pc' \in {"scan", "close"}
    PROVE  WriterInv'
<1>1. Files' = Files /\ DOMAIN files' = Files
  BY DEF WriterInv, Files
<1>2. \A g \in Files : files'[g] = IF g = "packets" THEN r ELSE files[g]
  BY DEF WriterInv
<1>3. \A g \in Files : g # "packets" => files[g].writer # "open"
  BY DEF WriterInv
<1>4. QED
  BY <1>1, <1>2, <1>3 DEF WriterInv

\* However it goes, a close does not leave its writer open.
LEMMA ClosingFrees ==
    ASSUME NEW f, FileTyped(f), NEW r \in AnyClosing(f)
    PROVE  FileTyped(r) /\ r.writer = "freed"
<1>1. PICK s \in BOOLEAN : r = [f EXCEPT !.writer = "freed", !.sealed = s]
  BY DEF AnyClosing, Closings
<1>2. r = [writer |-> "freed", groups |-> f.groups, sealed |-> s]
  BY <1>1 DEF FileTyped
<1>3. QED
  BY <1>2 DEF FileTyped

\* An open sets the writer, an accepted batch leaves it.
LEMMA OpeningTyped ==
    ASSUME NEW f, FileTyped(f), NEW rows
    PROVE  /\ FileTyped(Opened(f)) /\ Opened(f).writer = "open" /\ Opened(f).groups = f.groups
           /\ FileTyped(HandedBack(f)) /\ HandedBack(f).writer = "handedBack"
           /\ HandedBack(f).groups = f.groups
           /\ FileTyped(Accepted(f, rows)) /\ Accepted(f, rows).writer = f.writer
           /\ Accepted(f, rows).groups = Append(f.groups, rows)
<1>1. Opened(f) = [writer |-> "open", groups |-> f.groups, sealed |-> f.sealed]
  BY DEF Opened, FileTyped
<1>2. HandedBack(f) = [writer |-> "handedBack", groups |-> f.groups, sealed |-> f.sealed]
  BY DEF HandedBack, FileTyped
<1>3. Accepted(f, rows)
        = [writer |-> f.writer, groups |-> Append(f.groups, rows), sealed |-> f.sealed]
  BY DEF Accepted, FileTyped
<1>4. QED
  BY <1>1, <1>2, <1>3 DEF FileTyped

\* A file nobody opened.
LEMMA AbsentTyped == FileTyped(Absent) /\ Absent.writer = "none"
BY DEF Absent, FileTyped

\* Each table is opened and closed in one call.
LEMMA TableClosed ==
    ASSUME WriterInv, pc \notin {"scan", "close"}, NEW t, NEW rows,
           NEW r \in {Absent, HandedBack(Absent)} \cup AnyClosing(Opened(Absent))
                       \cup AnyClosing(Accepted(Opened(Absent), rows)),
           files' = [files EXCEPT ![t] = r]
    PROVE  WriterInv'
<1>1. FileTyped(r) /\ r.writer # "open"
  <2>1. FileTyped(Opened(Absent)) /\ FileTyped(HandedBack(Absent)) /\ HandedBack(Absent).writer # "open"
    BY AbsentTyped, OpeningTyped
  <2>2. FileTyped(Accepted(Opened(Absent), rows))
    BY <2>1, OpeningTyped
  <2>3. QED
    BY <2>1, <2>2, AbsentTyped, ClosingFrees
<1>2. QED
  BY <1>1, Replaced

\* A failure in the loop leaves no writer open.
LEMMA GivesUp ==
    ASSUME WriterInv, GiveUp
    PROVE  WriterInv'
<1>1. PICK r \in AnyClosing(files["packets"]) : files' = [files EXCEPT !["packets"] = r]
  BY DEF GiveUp
<1>2. FileTyped(files["packets"])
  BY DEF WriterInv, Files
<1>3. FileTyped(r) /\ r.writer # "open"
  BY <1>2, ClosingFrees
<1>4. QED
  BY <1>1, <1>3, Replaced

\* At the start no file is there.
LEMMA WriterInit == Init => WriterInv
BY AbsentTyped DEF Init, WriterInv

\* Every step leaves no other writer open.
LEMMA WriterKept == ASSUME WriterInv, [Next]_vars PROVE WriterInv'
<1>1. FileTyped(files["packets"])
  BY DEF WriterInv, Files
<1>2. CASE CannotStart
  <2>1. CASE UNCHANGED files
    BY <1>2, <2>1 DEF CannotStart, WriterInv, Files
  <2>2. CASE files' = [files EXCEPT !["packets"] = HandedBack(@)]
    <3>1. files' = [files EXCEPT !["packets"] = HandedBack(files["packets"])]
      BY <2>2
    <3>2. FileTyped(HandedBack(files["packets"])) /\ HandedBack(files["packets"]).writer # "open"
      BY <1>1, OpeningTyped
    <3>3. QED
      BY <3>1, <3>2, Replaced
  <2>3. QED
    BY <1>2, <2>1, <2>2 DEF CannotStart
<1>3. CASE Start
  <2>1. files' = [files EXCEPT !["packets"] = Opened(files["packets"])] /\ pc' = "scan"
    BY <1>3 DEF Start
  <2>2. FileTyped(Opened(files["packets"]))
    BY <1>1, OpeningTyped
  <2>3. QED
    BY <2>1, <2>2, PacketsReplaced
<1>4. CASE LldpRulesFail \/ ScanFails \/ WindowFails
  BY <1>4, GivesUp DEF LldpRulesFail, ScanFails, WindowFails
<1>5. CASE LoopDone \/ NoWholeBlock
  BY <1>5 DEF LoopDone, NoWholeBlock, Refill, WriterInv, Files
<1>6. CASE ProcessWindow
  <2>1. files' = IF RowsOf(Classified) = <<>> THEN files
                 ELSE [files EXCEPT !["packets"] = Accepted(files["packets"], RowsOf(Classified))]
    BY <1>6, Zenon DEF ProcessWindow
  <2>2. FileTyped(Accepted(files["packets"], RowsOf(Classified)))
    BY <1>1, OpeningTyped
  <2>3. pc = "scan" /\ pc' \in {"scan", "close"}
    BY <1>6 DEF ProcessWindow, Consume
  <2>4. CASE RowsOf(Classified) = <<>>
    BY <2>1, <2>3, <2>4 DEF WriterInv, Files
  <2>5. CASE RowsOf(Classified) # <<>>
    <3>1. files' = [files EXCEPT !["packets"] = Accepted(files["packets"], RowsOf(Classified))]
      BY <2>1, <2>5
    <3>2. QED
      BY <2>2, <2>3, <3>1, PacketsReplaced
  <2>6. QED
    BY <2>4, <2>5
<1>7. CASE ClosePackets
  <2>1. PICK r \in AnyClosing(files["packets"]) : files' = [files EXCEPT !["packets"] = r]
    BY <1>7 DEF ClosePackets, AnyClosing
  <2>2. FileTyped(r) /\ r.writer # "open"
    BY <1>1, ClosingFrees
  <2>3. QED
    BY <2>1, <2>2, Replaced
<1>8. ASSUME NEW t, SkipTable(t) PROVE WriterInv'
  BY <1>8 DEF SkipTable, AtTable, WriterInv, Files
<1>9. ASSUME NEW t, WriteTable(t) \/ TableFails(t) PROVE WriterInv'
  BY <1>9, TableClosed DEF WriteTable, TableFails, AtTable, AnyClosing
<1>10. CASE WriteLldp \/ LldpFails
  <2>1. CASE UNCHANGED files
    BY <1>10, <2>1 DEF WriteLldp, LldpFails, WriterInv, Files
  <2>2. CASE ~UNCHANGED files
    BY <1>10, <2>2, TableClosed DEF WriteLldp, LldpFails
  <2>3. QED
    BY <2>1, <2>2
<1>11. CASE UNCHANGED vars
  BY <1>11 DEF vars, WriterInv, Files
<1>12. QED
  BY <1>2, <1>3, <1>4, <1>5, <1>6, <1>7, <1>8, <1>9, <1>10, <1>11 DEF Next

------------------------------------------------------------------------------
(* The rows of the packets table, and what was decoded from them in the others. *)

\* What was decoded is what the decoders find in the rows written.
Decoded == \A t \in Tables : decoded[t] = Found(Written, t)
\* No PDU table was touched.
TablesAbsent == \A t \in Tables : files[t] = Absent

\* A PDU table is written when the packets table is sealed, with what was decoded.
FilesInv ==
    /\ files["packets"].groups \in Seq(Seq(Row))
    /\ exit # "failure" => Decoded
    /\ TablesAbsent \/ (files["packets"].sealed /\ Decoded)
    /\ pc \in {"start", "scan", "close"} => TablesAbsent
    /\ pc \in {"pdu", "lldp"} \/ exit = "success" => files["packets"].sealed
    /\ \A t \in Tables : files[t].groups = <<>>
                         \/ (files[t].groups = <<decoded[t]>> /\ decoded[t] # <<>>)

\* What does not change.
LEMMA SameTables == Tables' = Tables /\ Absent' = Absent /\ (UNCHANGED inputs => \A rows, t : Found(rows, t)' = Found(rows, t))
BY DEF Tables, Files, Absent, Found, Ids, Picked, Decodes, Asked, inputs

\* A step before the tables, of the packets table at most.
LEMMA PacketsOnly ==
    ASSUME WriterInv, NEW r, files' = [files EXCEPT !["packets"] = r]
    PROVE  files'["packets"] = r /\ \A t \in Tables : files'[t] = files[t]
BY DEF WriterInv, Tables, Files

\* What such a step has to show.
LEMMA PacketsStep ==
    ASSUME FilesInv, pc \in {"start", "scan", "close"}, NEW r, files'["packets"] = r,
           \A t \in Tables : files'[t] = files[t],
           r.groups \in Seq(Seq(Row)), exit' # "failure" => Decoded',
           pc' \in {"pdu", "lldp"} \/ exit' = "success" => r.sealed
    PROVE  FilesInv'
<1>1. \A t \in Tables : files'[t] = Absent /\ files'[t].groups = <<>>
  BY DEF FilesInv, TablesAbsent, Absent
<1>2. TablesAbsent'
  BY <1>1, SameTables DEF TablesAbsent
<1>3. \A t \in Tables' : files'[t].groups = <<>>
  BY <1>1, SameTables
<1>4. Row' = Row
  BY SameTables DEF Row
<1>5. QED
  BY <1>2, <1>3, <1>4 DEF FilesInv

\* A step that leaves the row groups and what was decoded.
LEMMA DecodedSame ==
    ASSUME Decoded, UNCHANGED inputs, UNCHANGED packetVars,
           files'["packets"].groups = files["packets"].groups
    PROVE  Decoded'
<1>1. Written' = Written
  BY DEF Written
<1>2. decoded' = decoded /\ Tables' = Tables
  BY SameTables DEF packetVars
<1>3. \A t : Found(Written, t)' = Found(Written', t)
  BY DEF Found, Ids, Picked, Decodes, Asked, inputs
<1>4. QED
  BY <1>1, <1>2, <1>3 DEF Decoded

\* At the start.
LEMMA FilesInit == Init => FilesInv
<1> SUFFICES ASSUME Init PROVE FilesInv
  OBVIOUS
<1>1. files = [f \in Files |-> Absent] /\ decoded = [t \in Tables |-> <<>>] /\ pc = "start" /\ exit = "none"
  BY DEF Init, Tables
<1>2. files["packets"] = Absent /\ \A t \in Tables : files[t] = Absent
  BY <1>1 DEF Tables, Files
<1>3. Absent.groups = <<>> /\ <<>> \in Seq(Seq(Row)) /\ <<>> \in Seq(Row)
  BY DEF Absent
<1>4. Written = <<>>
  BY <1>2, <1>3, FlattenEmpty DEF Written
<1>5. Decoded
  <2>1. \A t \in Tables : decoded[t] = <<>>
    BY <1>1
  <2>2. \A t : Found(<<>>, t) = <<>>
    BY <1>3, FoundNothing
  <2>3. QED
    BY <1>4, <2>1, <2>2 DEF Decoded
<1>6. QED
  BY <1>1, <1>2, <1>3, <1>5 DEF FilesInv, TablesAbsent

\* A close leaves the row groups; OK seals them.
LEMMA ClosingKeeps ==
    ASSUME NEW f, FileTyped(f), NEW status, NEW r \in Closings(f, status)
    PROVE  r.groups = f.groups /\ (status = "OK" => r.sealed)
<1>1. PICK s \in BOOLEAN : r = [f EXCEPT !.writer = "freed", !.sealed = s] /\ (status = "OK" => s)
  BY DEF Closings
<1>2. r = [writer |-> "freed", groups |-> f.groups, sealed |-> s]
  BY <1>1 DEF FileTyped
<1>3. QED
  BY <1>1, <1>2

\* A failure in the loop.
LEMMA FilesGiveUp ==
    ASSUME WriterInv, FilesInv, pc \in {"start", "scan", "close"}, GiveUp
    PROVE  FilesInv'
<1>1. PICK r \in AnyClosing(files["packets"]) : files' = [files EXCEPT !["packets"] = r]
  BY DEF GiveUp
<1>2. FileTyped(files["packets"])
  BY DEF WriterInv, Files
<1>3. r.groups = files["packets"].groups
  BY <1>2, ClosingKeeps DEF AnyClosing
<1>4. pc' = "done" /\ exit' = "failure" /\ r.groups \in Seq(Seq(Row))
  BY <1>3 DEF GiveUp, Finish, FilesInv
<1>5. files'["packets"] = r /\ \A t \in Tables : files'[t] = files[t]
  BY <1>1, PacketsOnly
<1>6. QED
  BY <1>4, <1>5, PacketsStep

\* The rows of a window come behind those written before.
LEMMA WrittenWindow ==
    ASSUME WindowInv, PacketInv, StageInv, WriterInv, FilesInv, ProcessWindow
    PROVE  /\ files'["packets"].groups \in Seq(Seq(Row)) /\ \A t \in Tables : files'[t] = files[t]
           /\ Written \in Seq(Row) /\ RowsOf(Classified) \in Seq(Row)
           /\ Written' = Written \o RowsOf(Classified)
<1> DEFINE rows == RowsOf(Classified)
           p == files["packets"]
           r == IF rows = <<>> THEN p ELSE Accepted(p, rows)
<1>1. /\ pc = "scan" /\ pc' \in {"scan", "close"} /\ exit' = exit /\ exit = "none" /\ UNCHANGED inputs
      /\ files' = IF rows = <<>> THEN files ELSE [files EXCEPT !["packets"] = Accepted(p, rows)]
  <2>1. files' = IF rows = <<>> THEN files ELSE [files EXCEPT !["packets"] = Accepted(p, rows)]
    BY Zenon DEF ProcessWindow
  <2>2. pc = "scan" /\ pc' \in {"scan", "close"} /\ exit' = exit /\ UNCHANGED inputs
    BY DEF ProcessWindow, Consume
  <2>3. QED
    BY <2>1, <2>2 DEF StageInv
<1>2. rows \in Seq(Row)
  <2>1. args \in Commands /\ seen \in Nat /\ Classified \in Kept
    BY ClassifiedKept DEF WindowInv, PacketInv, ProcessWindow
  <2>2. QED
    BY <2>1, RowsFacts
<1> HIDE DEF rows
<1>3. /\ p = [writer |-> p.writer, groups |-> p.groups, sealed |-> p.sealed]
      /\ p.groups \in Seq(Seq(Row)) /\ DOMAIN files = Files /\ "packets" \in Files
  BY DEF WriterInv, FileTyped, FilesInv, Files
<1>4. files'["packets"] = r /\ \A t \in Tables : files'[t] = files[t]
  BY <1>1, PacketsOnly
<1>5. r.groups \in Seq(Seq(Row)) /\ FlattenSeq(r.groups) = FlattenSeq(p.groups) \o rows
  <2>1. FlattenSeq(p.groups) \in Seq(Row)
    BY <1>3, FlattenTyped
  <2>2. CASE rows = <<>>
    <3>1. FlattenSeq(p.groups) \o rows = FlattenSeq(p.groups)
      <4> DEFINE w == FlattenSeq(p.groups)
      <4> HIDE DEF w
      <4>1. w \o <<>> = w
        BY <2>1, ConcatEmptySeq DEF w
      <4>2. QED
        BY <2>2, <4>1 DEF w
    <3>2. QED
      BY <1>3, <2>2, <3>1
  <2>3. CASE rows # <<>>
    <3>1. r = [writer |-> p.writer, groups |-> Append(p.groups, rows), sealed |-> p.sealed]
      BY <1>3, <2>3 DEF Accepted
    <3>2. r.groups = Append(p.groups, rows)
      BY <3>1
    <3>3. Append(p.groups, rows) \in Seq(Seq(Row))
      <4> DEFINE T == Seq(Row)
                 g == p.groups
      <4> HIDE DEF T, g
      <4>1. g \in Seq(T) /\ rows \in T
        BY <1>2, <1>3 DEF T, g
      <4>2. Append(g, rows) \in Seq(T)
        BY <4>1
      <4>3. QED
        BY <4>2 DEF T, g
    <3>4. FlattenSeq(Append(p.groups, rows)) = FlattenSeq(p.groups) \o rows
      <4> DEFINE g == p.groups
      <4> HIDE DEF g
      <4>1. g \in Seq(Seq(Row))
        BY <1>3 DEF g
      <4>2. FlattenSeq(Append(g, rows)) = FlattenSeq(g) \o rows
        BY <1>2, <4>1, FlattenAppend
      <4>3. QED
        BY <4>2 DEF g
    <3>5. QED
      BY <3>2, <3>3, <3>4
  <2>4. QED
    BY <2>2, <2>3
<1>6. Written' = FlattenSeq(r.groups) /\ Written = FlattenSeq(p.groups)
  BY <1>4 DEF Written
<1>7. QED
  BY <1>2, <1>3, <1>4, <1>5, <1>6, FlattenTyped DEF rows

\* One more row group, and what is found in it.
LEMMA FilesWindow ==
    ASSUME WindowInv, PacketInv, StageInv, WriterInv, FilesInv, ProcessWindow
    PROVE  FilesInv'
<1> DEFINE rows == RowsOf(Classified)
           r == files'["packets"]
<1>1. pc = "scan" /\ pc' \in {"scan", "close"} /\ exit' = exit /\ exit = "none" /\ UNCHANGED inputs
  BY DEF ProcessWindow, Consume, StageInv
<1>2. /\ r.groups \in Seq(Seq(Row)) /\ \A t \in Tables : files'[t] = files[t]
      /\ Written \in Seq(Row) /\ rows \in Seq(Row) /\ Written' = Written \o rows
  BY WrittenWindow
<1>3. \A t \in Tables : decoded'[t] = decoded[t] \o Found(rows, t)
  BY WindowTaken, Taken DEF PacketInv
<1> HIDE DEF rows
<1>4. Decoded'
  <2>1. ASSUME NEW t \in Tables PROVE decoded'[t] = Found(Written', t)
    <3>1. Found(Written \o rows, t) = Found(Written, t) \o Found(rows, t)
      BY <1>2, FoundConcat
    <3>2. decoded[t] = Found(Written, t)
      BY <1>1 DEF FilesInv, Decoded
    <3>3. QED
      BY <1>2, <1>3, <3>1, <3>2
  <2>2. \A t : Found(Written, t)' = Found(Written', t)
    BY <1>1 DEF Found, Ids, Picked, Decodes, Asked, inputs
  <2>3. QED
    BY <2>1, <2>2, SameTables DEF Decoded
<1> HIDE DEF r
<1>5. files'["packets"] = r
  BY DEF r
<1>6. QED
  BY <1>1, <1>2, <1>4, <1>5, PacketsStep

\* A table is written, or not.
LEMMA TableStep ==
    ASSUME FilesInv, StageInv, pc \in {"pdu", "lldp"}, NEW t \in Tables,
           files'["packets"] = files["packets"],
           \A u \in Tables \ {t} : files'[u] = files[u],
           UNCHANGED inputs, UNCHANGED packetVars, pc' \in {"pdu", "lldp", "done"},
           files'[t].groups = <<>> \/ (files'[t].groups = <<decoded[t]>> /\ decoded[t] # <<>>)
    PROVE  FilesInv'
<1>1. files["packets"].sealed /\ Decoded /\ decoded' = decoded
  BY DEF FilesInv, StageInv, packetVars
<1>2. Decoded'
  BY <1>1, DecodedSame
<1>3. \A u \in Tables' : files'[u].groups = <<>> \/ (files'[u].groups = <<decoded'[u]>> /\ decoded'[u] # <<>>)
  <2>1. \A u \in Tables \ {t} : files[u].groups = <<>> \/ (files[u].groups = <<decoded[u]>> /\ decoded[u] # <<>>)
    BY DEF FilesInv
  <2>2. QED
    BY <1>1, <2>1, SameTables
<1>4. files'["packets"].groups \in Seq(Seq(Row))' /\ files'["packets"].sealed
  BY <1>1, SameTables DEF FilesInv, Row
<1>5. QED
  BY <1>2, <1>3, <1>4 DEF FilesInv

\* A file that takes the place of the one of t.
LEMMA TableOnly ==
    ASSUME WriterInv, NEW t \in Tables, NEW r, files' = [files EXCEPT ![t] = r]
    PROVE  /\ files'["packets"] = files["packets"] /\ files'[t] = r
           /\ \A u \in Tables \ {t} : files'[u] = files[u]
BY DEF WriterInv, Tables, Files

\* What the writing of a table leaves of it.
LEMMA TableOutcome ==
    ASSUME NEW rows, NEW r \in {Absent, HandedBack(Absent)} \cup AnyClosing(Opened(Absent))
                       \cup AnyClosing(Accepted(Opened(Absent), rows))
    PROVE  /\ r.groups = <<>> \/ r.groups = <<rows>>
           /\ r \in Closings(Accepted(Opened(Absent), rows), "OK") => r.sealed
<1>1. FileTyped(Absent) /\ Absent.groups = <<>>
  BY AbsentTyped DEF Absent
<1>2. Opened(Absent).groups = <<>> /\ HandedBack(Absent).groups = <<>> /\ FileTyped(Opened(Absent))
  BY <1>1, OpeningTyped
<1>3. FileTyped(Accepted(Opened(Absent), rows))
      /\ Accepted(Opened(Absent), rows).groups = Append(Opened(Absent).groups, rows)
  BY <1>2, OpeningTyped
<1>4. Append(<<>>, rows) = <<rows>>
  OBVIOUS
<1>5. Accepted(Opened(Absent), rows).groups = <<rows>>
  BY <1>2, <1>3, <1>4
<1>6. r.groups = <<>> \/ r.groups = <<rows>>
  <2>1. CASE r \in AnyClosing(Opened(Absent)) \cup AnyClosing(Accepted(Opened(Absent), rows))
    <3>1. r.groups = Opened(Absent).groups \/ r.groups = Accepted(Opened(Absent), rows).groups
      BY <1>2, <1>3, <2>1, ClosingKeeps DEF AnyClosing
    <3>2. QED
      BY <1>2, <1>5, <3>1
  <2>2. QED
    BY <1>1, <1>2, <2>1
<1>7. r \in Closings(Accepted(Opened(Absent), rows), "OK") => r.sealed
  BY <1>3, ClosingKeeps
<1>8. QED
  BY <1>6, <1>7

\* The four actions on tables, in the one form.
Outcomes(rows) == {Absent, HandedBack(Absent)} \cup AnyClosing(Opened(Absent))
                  \cup AnyClosing(Accepted(Opened(Absent), rows))

\* The steps of the tables.
LEMMA TableActions ==
    ASSUME StageInv, NEW t, WriteTable(t) \/ TableFails(t)
    PROVE  /\ pc = "pdu" /\ t \in Tables /\ decoded[t] # <<>> /\ t = PduTables[table]
           /\ table \in 1 .. Len(PduTables)
           /\ pc' \in {"pdu", "lldp", "done"} /\ UNCHANGED inputs /\ UNCHANGED packetVars
           /\ \E r \in Outcomes(decoded[t]) :
                files' = [files EXCEPT ![t] = r]
                /\ (WriteTable(t) => r.sealed)
<1>1. /\ pc = "pdu" /\ decoded[t] # <<>> /\ t = PduTables[table] /\ UNCHANGED inputs /\ UNCHANGED packetVars
      /\ \E s \in BOOLEAN : NextTable(s)
  BY DEF WriteTable, TableFails, AtTable
<1>2. table \in 1 .. Len(PduTables)
  BY <1>1, TablesFacts DEF StageInv
<1>3. pc' \in {"pdu", "lldp", "done"}
  BY <1>1 DEF NextTable, AfterPdus, Finish
<1>4. CASE WriteTable(t)
  <2>1. PICK r \in Closings(Accepted(Opened(Absent), decoded[t]), "OK") : files' = [files EXCEPT ![t] = r]
    BY <1>4 DEF WriteTable
  <2>2. r \in Outcomes(decoded[t])
    BY <2>1 DEF Outcomes, AnyClosing
  <2>3. r.sealed
    BY <2>1, <2>2, TableOutcome DEF Outcomes
  <2>4. QED
    BY <1>1, <1>2, <1>3, <2>1, <2>2, <2>3, TablesFacts
<1>5. CASE TableFails(t) /\ ~WriteTable(t)
  <2>1. PICK r \in {Absent, HandedBack(Absent)} \cup AnyClosing(Opened(Absent))
                   \cup Closings(Accepted(Opened(Absent), decoded[t]), "IO_ERROR") : files' = [files EXCEPT ![t] = r]
    BY <1>5 DEF TableFails
  <2>2. r \in Outcomes(decoded[t])
    BY <2>1 DEF Outcomes, AnyClosing
  <2>3. QED
    BY <1>1, <1>2, <1>3, <1>5, <2>1, <2>2, TablesFacts
<1>6. QED
  BY <1>4, <1>5

\* Every step leaves the files so.
LEMMA FilesKept ==
    ASSUME WindowInv, PacketInv, StageInv, WriterInv, FilesInv, [Next]_vars
    PROVE  FilesInv'
<1> DEFINE p == files["packets"]
<1>1. FileTyped(p) /\ p.groups \in Seq(Seq(Row))
  BY DEF WriterInv, FilesInv, Files
<1>2. ASSUME pc \in {"start", "scan", "close"}, NEW r, files' = [files EXCEPT !["packets"] = r],
             r.groups = p.groups, UNCHANGED inputs, UNCHANGED packetVars,
             pc' \in {"pdu", "lldp"} \/ exit' = "success" => r.sealed
      PROVE  FilesInv'
  <2>1. files'["packets"] = r /\ \A t \in Tables : files'[t] = files[t]
    BY <1>2, PacketsOnly
  <2>2. Decoded
    BY <1>2 DEF FilesInv, StageInv
  <2>3. Decoded'
    BY <1>2, <2>1, <2>2, DecodedSame
  <2>4. QED
    BY <1>1, <1>2, <2>1, <2>3, PacketsStep
<1>3. ASSUME files' = files, UNCHANGED inputs, UNCHANGED packetVars,
             pc \in {"start", "scan", "close"} \/ (pc' \notin {"start", "scan", "close"}),
             pc' \in {"pdu", "lldp"} \/ exit' = "success" =>
               pc \in {"pdu", "lldp"} \/ exit = "success",
             exit' # "failure" => exit # "failure"
      PROVE  FilesInv'
  <2>1. Decoded => Decoded'
    BY <1>3, DecodedSame
  <2>2. TablesAbsent' <=> TablesAbsent
    BY <1>3, SameTables DEF TablesAbsent
  <2>3. decoded' = decoded /\ Row' = Row
    BY <1>3, SameTables DEF packetVars, Row
  <2>4. QED
    BY <1>3, <2>1, <2>2, <2>3, SameTables DEF FilesInv
<1>4. CASE CannotStart
  <2>1. pc = "start" /\ pc' = "done" /\ exit' = "failure" /\ UNCHANGED inputs /\ UNCHANGED packetVars
    BY <1>4 DEF CannotStart, Finish
  <2>2. CASE files' = files
    BY <1>3, <2>1, <2>2
  <2>3. CASE files' # files
    <3>1. files' = [files EXCEPT !["packets"] = HandedBack(p)]
      BY <1>4, <2>3 DEF CannotStart
    <3>2. HandedBack(p) = [writer |-> "handedBack", groups |-> p.groups, sealed |-> p.sealed]
      BY <1>1 DEF HandedBack, FileTyped
    <3>3. HandedBack(p).groups = p.groups
      BY <3>2
    <3>4. QED
      BY <1>2, <2>1, <3>1, <3>3
  <2>4. QED
    BY <2>2, <2>3
<1>5. CASE Start
  <2>1. /\ files' = [files EXCEPT !["packets"] = Opened(p)] /\ pc = "start" /\ pc' = "scan" /\ exit' = exit
        /\ UNCHANGED inputs /\ UNCHANGED packetVars
    BY <1>5 DEF Start
  <2>2. Opened(p) = [writer |-> "open", groups |-> p.groups, sealed |-> p.sealed]
    BY <1>1 DEF Opened, FileTyped
  <2>3. Opened(p).groups = p.groups
    BY <2>2
  <2>4. exit' # "success"
    BY <2>1 DEF StageInv
  <2>5. QED
    BY <1>2, <2>1, <2>3, <2>4
<1>6. CASE LldpRulesFail \/ ScanFails \/ WindowFails
  BY <1>6, FilesGiveUp DEF LldpRulesFail, ScanFails, WindowFails
<1>7. CASE LoopDone \/ NoWholeBlock
  <2>1. /\ files' = files /\ UNCHANGED inputs /\ UNCHANGED packetVars /\ pc = "scan"
        /\ pc' \in {"scan", "close"} /\ exit' = exit
    BY <1>7 DEF LoopDone, NoWholeBlock, Refill
  <2>2. QED
    BY <1>3, <2>1
<1>8. CASE ProcessWindow
  BY <1>8, FilesWindow
<1>9. CASE ClosePackets
  <2>1. PICK status \in {"OK", "IO_ERROR"} :
          /\ \E r \in Closings(p, status) : files' = [files EXCEPT !["packets"] = r]
          /\ IF status = "OK" THEN AfterPackets ELSE Finish("failure")
    BY <1>9 DEF ClosePackets
  <2>2. PICK r \in Closings(p, status) : files' = [files EXCEPT !["packets"] = r]
    BY <2>1
  <2>3. r.groups = p.groups /\ (status = "OK" => r.sealed)
    BY <1>1, ClosingKeeps
  <2>4. pc = "close" /\ UNCHANGED inputs /\ UNCHANGED packetVars
    BY <1>9 DEF ClosePackets
  <2>5. status # "OK" => pc' = "done" /\ exit' = "failure"
    BY <2>1 DEF Finish
  <2>6. pc' \in {"pdu", "lldp"} \/ exit' = "success" => r.sealed
    BY <2>3, <2>5
  <2>7. QED
    BY <1>2, <2>2, <2>3, <2>4, <2>6
<1>10. ASSUME NEW t, SkipTable(t) PROVE FilesInv'
  <2>1. /\ pc = "pdu" /\ files' = files /\ UNCHANGED inputs /\ UNCHANGED packetVars
        /\ \E s \in BOOLEAN : NextTable(s)
    BY <1>10 DEF SkipTable, AtTable
  <2>2. pc' \in {"pdu", "lldp", "done"} /\ exit # "failure"
    BY <2>1 DEF NextTable, AfterPdus, Finish, StageInv
  <2>3. QED
    BY <1>3, <2>1, <2>2
<1>11. ASSUME NEW t, WriteTable(t) \/ TableFails(t) PROVE FilesInv'
  <2>1. /\ pc = "pdu" /\ t \in Tables /\ decoded[t] # <<>> /\ pc' \in {"pdu", "lldp", "done"}
        /\ UNCHANGED inputs /\ UNCHANGED packetVars
        /\ \E r \in Outcomes(decoded[t]) : files' = [files EXCEPT ![t] = r]
    BY <1>11, TableActions
  <2>2. PICK r \in Outcomes(decoded[t]) : files' = [files EXCEPT ![t] = r]
    BY <2>1
  <2>3. r.groups = <<>> \/ r.groups = <<decoded[t]>>
    BY TableOutcome DEF Outcomes
  <2>4. QED
    BY <2>1, <2>2, <2>3, TableOnly, TableStep
<1>12. CASE WriteLldp \/ LldpFails
  <2>1. pc = "lldp" /\ pc' = "done" /\ UNCHANGED inputs /\ UNCHANGED packetVars
    BY <1>12 DEF WriteLldp, LldpFails, Finish
  <2>2. CASE files' = files
    BY <1>3, <2>1, <2>2 DEF StageInv
  <2>3. CASE files' # files
    <3>1. PICK r \in Outcomes(decoded["lldp"]) : files' = [files EXCEPT !["lldp"] = r]
      BY <1>12, <2>3 DEF WriteLldp, LldpFails, Outcomes
    <3>2. decoded["lldp"] # <<>>
      BY <1>12, <2>3 DEF WriteLldp, LldpFails
    <3>3. r.groups = <<>> \/ r.groups = <<decoded["lldp"]>>
      BY TableOutcome DEF Outcomes
    <3>4. "lldp" \in Tables
      BY DEF Tables, Files
    <3>5. QED
      BY <2>1, <3>1, <3>2, <3>3, <3>4, TableOnly, TableStep
  <2>4. QED
    BY <2>2, <2>3
<1>13. CASE UNCHANGED vars
  BY <1>3, <1>13 DEF vars
<1>14. QED
  BY <1>4, <1>5, <1>6, <1>7, <1>8, <1>9, <1>10, <1>11, <1>12, <1>13 DEF Next

------------------------------------------------------------------------------
(* Success: every table that has a row was sealed on the way. *)

\* Table t is on the disk, or has no row.
Complete(t) == decoded[t] # <<>> => files[t].sealed

\* While no table failed, those before the next are complete; success means that all are.
ExitInv ==
    /\ pc = "pdu" /\ ok => \A k \in 1 .. table - 1 : Complete(PduTables[k])
    /\ pc = "lldp" \/ exit = "success" => \A k \in 1 .. Len(PduTables) : Complete(PduTables[k])

\* At the start no table was due.
LEMMA ExitInit == Init => ExitInv
BY DEF Init, ExitInv

\* One more table done, or the last.
LEMMA NextTableExit ==
    ASSUME StageInv, ExitInv, pc = "pdu", NEW s \in BOOLEAN, NextTable(s),
           NEW t, t = PduTables[table], s => Complete(t)',
           \A k \in 1 .. Len(PduTables) : Complete(PduTables[k]) /\ s => Complete(PduTables[k])'
    PROVE  ExitInv'
<1>1. /\ Len(PduTables) \in Nat /\ table \in 1 .. Len(PduTables) /\ table' = table + 1
      /\ ok' = (ok /\ s) /\ ok \in BOOLEAN /\ exit = "none"
  BY TablesFacts DEF StageInv, NextTable
<1>2. ASSUME ok' PROVE \A k \in 1 .. table : Complete(PduTables[k])'
  <2>1. \A k \in 1 .. table - 1 : Complete(PduTables[k])
    BY <1>1, <1>2 DEF ExitInv
  <2>2. \A k \in 1 .. table : k \in 1 .. table - 1 \/ k = table
    BY <1>1
  <2>3. \A k \in 1 .. table - 1 : k \in 1 .. Len(PduTables)
    BY <1>1
  <2>4. Complete(t)'
    BY <1>1, <1>2
  <2>5. ASSUME NEW k \in 1 .. table PROVE Complete(PduTables[k])'
    <3>1. CASE k \in 1 .. table - 1
      BY <1>1, <1>2, <2>1, <2>3, <3>1
    <3>2. CASE k = table
      <4>1. PduTables[k] = t
        BY <3>2
      <4>2. QED
        BY <2>4, <4>1
    <3>3. QED
      BY <2>2, <3>1, <3>2
  <2>6. QED
    BY <2>5
<1>3. CASE table < Len(PduTables)
  <2>1. pc' = "pdu" /\ exit' = "none" /\ table' - 1 = table
    BY <1>1, <1>3 DEF NextTable
  <2>2. QED
    BY <1>2, <2>1 DEF ExitInv
<1>4. CASE ~ (table < Len(PduTables))
  <2>1. table = Len(PduTables)
    BY <1>1, <1>4
  <2>2. pc' # "pdu" /\ (pc' = "lldp" \/ exit' = "success" => ok')
    BY <1>1, <1>4 DEF NextTable, AfterPdus, Finish
  <2>3. QED
    BY <1>2, <2>1, <2>2 DEF ExitInv
<1>5. QED
  BY <1>3, <1>4

\* Every step remembers a table that failed.
LEMMA ExitKept ==
    ASSUME StageInv, WriterInv, DecodedInv, ExitInv, [Next]_vars
    PROVE  ExitInv'
<1>1. ASSUME pc' # "pdu", pc' # "lldp", exit' # "success" PROVE ExitInv'
  BY <1>1 DEF ExitInv
<1>2. CASE CannotStart \/ Start \/ LldpRulesFail \/ LoopDone \/ ScanFails \/ WindowFails
  BY <1>1, <1>2 DEF CannotStart, Start, LldpRulesFail, LoopDone, ScanFails, WindowFails,
                    GiveUp, Finish, StageInv
<1>3. CASE NoWholeBlock
  BY <1>1, <1>3 DEF NoWholeBlock, Refill, StageInv
<1>4. CASE ProcessWindow
  BY <1>1, <1>4 DEF ProcessWindow, Consume, StageInv
<1>5. CASE ClosePackets
  <2>1. pc = "close" /\ decoded' = decoded /\ table' = 1 /\ (AfterPackets \/ Finish("failure"))
    BY <1>5 DEF ClosePackets, packetVars, pduVars, StageInv
  <2>2. CASE args.decode /\ emitted > 0
    <3>1. (pc' = "pdu" /\ exit' = "none") \/ (pc' = "done" /\ exit' = "failure")
      BY <2>1, <2>2 DEF AfterPackets, Finish, StageInv
    <3>2. QED
      BY <2>1, <3>1 DEF ExitInv
  <2>3. CASE ~ (args.decode /\ emitted > 0)
    <3>1. pc' # "pdu"
      BY <2>1, <2>3 DEF AfterPackets, Finish
    <3>2. ASSUME NEW k \in 1 .. Len(PduTables) PROVE Complete(PduTables[k])'
      <4>1. PduTables[k] \in Tables /\ PduTables[k] # "lldp"
        BY TablesFacts
      <4>2. decoded[PduTables[k]] = <<>>
        BY <2>3, <4>1 DEF DecodedInv, Asked
      <4>3. QED
        BY <2>1, <4>2 DEF Complete
    <3>3. QED
      BY <3>1, <3>2 DEF ExitInv
  <2>4. QED
    BY <2>2, <2>3
<1>6. ASSUME NEW t, SkipTable(t) PROVE ExitInv'
  <2>1. /\ pc = "pdu" /\ t = PduTables[table] /\ decoded[t] = <<>> /\ decoded' = decoded /\ files' = files
        /\ NextTable(TRUE)
    BY <1>6 DEF SkipTable, AtTable, packetVars
  <2>2. Complete(t)' /\ \A u : Complete(u) => Complete(u)'
    BY <2>1 DEF Complete
  <2>3. QED
    BY <2>1, <2>2, NextTableExit
<1>7. ASSUME NEW t, WriteTable(t) \/ TableFails(t) PROVE ExitInv'
  <2>1. /\ pc = "pdu" /\ t \in Tables /\ decoded[t] # <<>> /\ t = PduTables[table] /\ UNCHANGED packetVars
        /\ \E r \in Outcomes(decoded[t]) :
             files' = [files EXCEPT ![t] = r] /\ (WriteTable(t) => r.sealed)
    BY <1>7, TableActions
  <2>2. PICK r \in Outcomes(decoded[t]) :
          files' = [files EXCEPT ![t] = r] /\ (WriteTable(t) => r.sealed)
    BY <2>1
  <2>3. decoded' = decoded /\ files'[t] = r /\ \A u \in Tables \ {t} : files'[u] = files[u]
    BY <2>1, <2>2, TableOnly DEF packetVars
  <2>4. CASE WriteTable(t)
    <3>1. NextTable(TRUE) /\ Complete(t)'
      BY <2>2, <2>3, <2>4 DEF WriteTable, Complete
    <3>2. \A u \in Tables : Complete(u) => Complete(u)'
      BY <2>3, <3>1 DEF Complete
    <3>3. \A k \in 1 .. Len(PduTables) : Complete(PduTables[k]) => Complete(PduTables[k])'
      BY <3>2, TablesFacts
    <3>4. QED
      BY <2>1, <3>1, <3>3, NextTableExit
  <2>5. CASE ~WriteTable(t)
    <3>1. NextTable(FALSE)
      BY <1>7, <2>5 DEF TableFails
    <3>2. QED
      BY <2>1, <3>1, NextTableExit
  <2>6. QED
    BY <2>4, <2>5
<1>8. CASE WriteLldp \/ LldpFails
  <2>1. pc = "lldp" /\ pc' = "done" /\ decoded' = decoded
    BY <1>8 DEF WriteLldp, LldpFails, Finish, packetVars
  <2>2. \A u \in Tables \ {"lldp"} : files'[u] = files[u]
    BY <1>8 DEF WriteLldp, LldpFails, WriterInv, Tables
  <2>3. \A k \in 1 .. Len(PduTables) : Complete(PduTables[k]) => Complete(PduTables[k])'
    <3>1. \A u \in Tables \ {"lldp"} : Complete(u) => Complete(u)'
      BY <2>1, <2>2 DEF Complete
    <3>2. QED
      BY <3>1, TablesFacts
  <2>4. QED
    BY <2>1, <2>3 DEF ExitInv
<1>9. CASE UNCHANGED vars
  <2>1. \A u : Complete(u)' <=> Complete(u)
    BY <1>9 DEF vars, packetVars, Complete
  <2>2. QED
    BY <1>9, <2>1 DEF vars, pduVars, ExitInv
<1>10. QED
  BY <1>2, <1>3, <1>4, <1>5, <1>6, <1>7, <1>8, <1>9 DEF Next

------------------------------------------------------------------------------
(* The invariant of a conversion, and what follows from it. *)

\* The inductive invariant.
IInv == WindowInv /\ PacketInv /\ DecodedInv /\ StageInv /\ WriterInv /\ FilesInv /\ ExitInv

\* It holds at the start.
LEMMA InitHolds == Init => IInv
<1>1. Init => DecodedInv
  BY DEF Init, DecodedInv, Tables
<1>2. QED
  BY <1>1, WindowInit, PacketInit, StageInit, WriterInit, FilesInit, ExitInit DEF IInv

\* Every step keeps it.
LEMMA StepKeeps == IInv /\ [Next]_vars => IInv'
BY WindowKept, PacketKept, DecodedKept, StageKept, WriterKept, FilesKept, ExitKept DEF IInv

\* Wherever a conversion fails, and whatever its closes return, no writer that was
\* opened is left open when run returns.
THEOREM OpenedIsAlwaysClosed == Spec => []OpenedIsClosed
<1>1. IInv => OpenedIsClosed
  BY DEF IInv, WriterInv, OpenedIsClosed
<1>2. QED
  BY <1>1, InitHolds, StepKeeps, PTL DEF Spec

\* The largest block of a capture that has one.
LEMMA LargestBlock ==
    ASSUME capture \in Captures, NEW i \in DOMAIN capture
    PROVE  /\ Max({capture[j].size : j \in DOMAIN capture}) \in Nat
           /\ capture[i].size <= Max({capture[j].size : j \in DOMAIN capture})
<1> DEFINE S == {capture[j].size : j \in DOMAIN capture}
           P == Sums(Sizes)
           n == Len(capture)
<1>1. \A j \in 1 .. n : capture[j].size \in Nat /\ capture[j].size <= Bytes(1, n)
  <2> SUFFICES ASSUME NEW j \in 1 .. n PROVE capture[j].size \in Nat /\ capture[j].size <= Bytes(1, n)
    OBVIOUS
  <2>1. n \in Nat /\ capture[j].size \in Nat
    BY CaptureFacts
  <2>2. Bytes(j, j) = capture[j].size
    BY BytesFacts
  <2> DEFINE k == j - 1
  <2>3. k \in 0 .. n /\ k + 1 = j /\ j \in 0 .. n /\ 0 \in 0 .. n /\ n \in 0 .. n /\ 0 <= k /\ j <= n
    BY <2>1
  <2> HIDE DEF k
  <2>4. Bytes(0 + 1, n) = Bytes(0 + 1, k) + Bytes(k + 1, n) /\ Bytes(k + 1, n) = Bytes(k + 1, j) + Bytes(j + 1, n)
    BY <2>3, BytesFacts
  <2>5. Bytes(0 + 1, k) \in Nat /\ Bytes(j + 1, n) \in Nat
    BY <2>3, BytesFacts
  <2>6. 0 + 1 = 1
    OBVIOUS
  <2>7. Bytes(1, n) = Bytes(1, k) + (Bytes(j, j) + Bytes(j + 1, n)) /\ Bytes(1, k) \in Nat
    BY <2>3, <2>4, <2>5, <2>6
  <2>8. QED
    BY <2>1, <2>2, <2>5, <2>7
<1>2. DOMAIN capture = 1 .. n /\ n \in Nat
  BY CaptureFacts
<1>3. Bytes(1, n) \in Nat
  <2>1. 0 \in 0 .. n /\ n \in 0 .. n /\ 0 <= n /\ 0 + 1 = 1
    BY <1>2
  <2>2. QED
    BY <2>1, BytesFacts
<1> DEFINE hi == Bytes(1, n)
<1>4. S \subseteq 0 .. hi /\ S # {} /\ capture[i].size \in S
  <2> HIDE DEF hi
  <2>1. \A j \in DOMAIN capture : capture[j].size \in 0 .. hi
    BY <1>1, <1>2, <1>3 DEF hi
  <2>2. QED
    BY <2>1
<1> HIDE DEF S, hi
<1>5. Max(S) \in S /\ \A y \in S : y <= Max(S)
  <2>1. 0 \in Int /\ hi \in Int
    BY <1>3 DEF hi
  <2>2. QED
    BY <1>4, <2>1, MaxOf
<1>6. QED
  BY <1>3, <1>4, <1>5 DEF S, hi

\* What is read ahead of the blocks done stays in the window, and the window stays small:
\* it is the one asked for, or at most twice the largest block.
THEOREM WindowStaysSmall == Spec => []WindowOK
<1>1. ASSUME IInv PROVE TypeOK
  <2>1. /\ next \in 1 .. Len(capture) + 1 /\ valid \in 0 .. capacity /\ eof \in BOOLEAN
        /\ section \in 0 .. Len(sections) /\ emitted \in 0 .. seen
    <3>1. Len(sections) \in Nat /\ section = Len(sections)
      BY <1>1 DEF IInv, PacketInv
    <3>2. QED
      BY <1>1, <3>1 DEF IInv, WindowInv, PacketInv
  <2>2. \A t \in DOMAIN decoded : \A k \in DOMAIN decoded[t] : decoded[t][k] < seen
    <3>1. DOMAIN decoded = Tables
      BY <1>1 DEF IInv, PacketInv
    <3>2. QED
      BY <1>1, <3>1 DEF IInv, PacketInv
  <2>3. \A f \in Files : files[f].writer \in {"none", "handedBack", "open", "freed"}
    BY <1>1 DEF IInv, WriterInv, FileTyped
  <2>4. QED
    BY <1>1, <2>1, <2>2, <2>3 DEF IInv, StageInv, TypeOK
<1>2. ASSUME IInv PROVE WindowIsBounded
  <2>1. capture \in Captures /\ capacity \in Nat
    BY <1>2 DEF IInv, WindowInv
  <2>2. CASE capacity = args.window
    BY <2>2 DEF WindowIsBounded
  <2>3. CASE capacity # args.window
    <3>1. PICK i \in DOMAIN capture : capacity <= 2 * capture[i].size
      BY <1>2, <2>3 DEF IInv, WindowInv
    <3>2. capture[i].size \in Nat
      BY <2>1, CaptureFacts
    <3> DEFINE m == Max({capture[j].size : j \in DOMAIN capture})
    <3>3. m \in Nat /\ capture[i].size <= m
      BY <2>1, LargestBlock
    <3> HIDE DEF m
    <3>4. capacity <= 2 * m
      BY <2>1, <3>1, <3>2, <3>3
    <3>5. QED
      BY <3>4 DEF WindowIsBounded, m
  <2>4. QED
    BY <2>2, <2>3
<1>3. IInv => WindowOK
  BY <1>1, <1>2 DEF WindowOK
<1>4. QED
  BY <1>3, InitHolds, StepKeeps, PTL DEF Spec

\* A sealed PDU table holds exactly the numbers of the Ethernet rows of the packets
\* table that its protocol is found in, however the windows fell, and the packets
\* table it joins back to is sealed: write_pdu_tables runs after its close.
THEOREM PdusAreOfThePackets == Spec => []PdusJoinPackets
<1>1. ASSUME IInv, NEW t \in Tables, files[t].sealed, files[t].groups # <<>>
      PROVE  /\ files["packets"].sealed
             /\ files[t].groups =
                  <<Ids(Picked(Written, {k \in DOMAIN Written :
                                           Written[k].link = "ethernet" /\ t \in Written[k].pdus}))>>
  <2>1. files[t].groups = <<decoded[t]>> /\ decoded[t] # <<>>
    BY <1>1 DEF IInv, FilesInv
  <2>2. files[t] # Absent
    BY <1>1 DEF Absent
  <2>3. files["packets"].sealed /\ Decoded
    BY <1>1, <2>2 DEF IInv, FilesInv, TablesAbsent
  <2>4. Asked(t)
    BY <1>1, <2>1 DEF IInv, DecodedInv
  <2>5. decoded[t] = Found(Written, t)
    BY <2>3 DEF Decoded
  <2>6. {k \in DOMAIN Written : Decodes(Written[k], t)}
          = {k \in DOMAIN Written : Written[k].link = "ethernet" /\ t \in Written[k].pdus}
    BY <2>4 DEF Decodes
  <2>7. QED
    BY <2>1, <2>3, <2>5, <2>6 DEF Found
<1>2. IInv => PdusJoinPackets
  BY <1>1 DEF PdusJoinPackets, Tables
<1>3. QED
  BY <1>2, InitHolds, StepKeeps, PTL DEF Spec

\* A conversion that returns 0 has sealed the packets table and every PDU table that has
\* a row: a failure of one of them is remembered while the others are written.
THEOREM ZeroMeansComplete == Spec => []ExitZeroIsComplete
<1>1. ASSUME IInv, exit = "success"
      PROVE  files["packets"].sealed /\ \A t \in ToSet(PduTables) : decoded[t] # <<>> => files[t].sealed
  <2>1. files["packets"].sealed
    BY <1>1 DEF IInv, FilesInv
  <2>2. \A k \in 1 .. Len(PduTables) : Complete(PduTables[k])
    BY <1>1 DEF IInv, ExitInv
  <2>3. \A t \in ToSet(PduTables) : \E k \in 1 .. Len(PduTables) : t = PduTables[k]
    BY PduTablesAssumption DEF ToSet
  <2>4. QED
    BY <2>1, <2>2, <2>3 DEF Complete
<1>2. IInv => ExitZeroIsComplete
  BY <1>1 DEF ExitZeroIsComplete
<1>3. QED
  BY <1>2, InitHolds, StepKeeps, PTL DEF Spec

------------------------------------------------------------------------------
(* The interfaces a packet may name: those of its section, before it. *)

\* Where the section of a block starts, one block on.
LEMMA StartStep ==
    ASSUME NEW c \in Seq(Block)
    PROVE  /\ SectionStart(c, 0) = 0
           /\ \A i \in 1 .. Len(c) :
                /\ SectionStart(c, i) = IF c[i].kind = "shb" THEN i ELSE SectionStart(c, i - 1)
                /\ SectionStart(c, i) \in 0 .. i /\ SectionStart(c, i - 1) \in 0 .. i - 1
<1> DEFINE S(i) == {0} \cup {j \in 1 .. i : c[j].kind = "shb"}
<1>1. \A i \in Nat : S(i) \subseteq 0 .. i /\ 0 \in S(i)
  OBVIOUS
<1>2. \A i \in Nat : SectionStart(c, i) \in S(i) /\ \A y \in S(i) : y <= SectionStart(c, i)
  <2> SUFFICES ASSUME NEW i \in Nat
               PROVE  SectionStart(c, i) \in S(i) /\ \A y \in S(i) : y <= SectionStart(c, i)
    OBVIOUS
  <2> DEFINE U == S(i)
  <2>1. U \subseteq 0 .. i /\ U # {} /\ 0 \in Int /\ i \in Int
    BY <1>1
  <2> HIDE DEF U
  <2>2. Max(U) \in U /\ \A y \in U : y <= Max(U)
    BY <2>1, MaxOf
  <2>3. QED
    BY <2>2 DEF U, SectionStart
<1>3. SectionStart(c, 0) = 0
  BY <1>1, <1>2
<1>4. ASSUME NEW i \in 1 .. Len(c)
      PROVE  /\ SectionStart(c, i) = IF c[i].kind = "shb" THEN i ELSE SectionStart(c, i - 1)
             /\ SectionStart(c, i) \in 0 .. i /\ SectionStart(c, i - 1) \in 0 .. i - 1
  <2>1. i \in Nat /\ i - 1 \in Nat /\ i >= 1
    OBVIOUS
  <2>2. SectionStart(c, i) \in 0 .. i /\ SectionStart(c, i - 1) \in 0 .. i - 1
    BY <1>1, <1>2, <2>1
  <2>3. CASE c[i].kind = "shb"
    <3>1. i \in S(i)
      BY <2>1, <2>3
    <3>2. i <= SectionStart(c, i)
      BY <1>2, <2>1, <3>1
    <3>3. QED
      BY <2>1, <2>2, <2>3, <3>2
  <2>4. CASE c[i].kind # "shb"
    <3>1. S(i) = S(i - 1)
      BY <2>1, <2>4
    <3>2. QED
      BY <2>2, <2>4, <3>1 DEF SectionStart
  <2>5. QED
    BY <2>2, <2>3, <2>4
<1>5. QED
  BY <1>3, <1>4

\* The interfaces a packet may name, one block on.
LEMMA FacesStep ==
    ASSUME NEW c \in Seq(Block)
    PROVE  /\ InterfacesOf(c, 0) = <<>>
           /\ \A i \in 1 .. Len(c) :
                /\ InterfacesOf(c, i - 1) \in Seq(Block) /\ InterfacesOf(c, i) \in Seq(Block)
                /\ InterfacesOf(c, i) = IF c[i].kind = "shb" THEN <<>>
                                        ELSE IF c[i].kind = "idb" THEN Append(InterfacesOf(c, i - 1), c[i])
                                        ELSE InterfacesOf(c, i - 1)
<1> DEFINE J(i) == {j \in SectionStart(c, i) + 1 .. i : c[j].kind = "idb"}
<1>1. \A i : InterfacesOf(c, i) = Picks(c, J(i))[i]
  BY DEF InterfacesOf
<1>2. InterfacesOf(c, 0) = <<>>
  <2> DEFINE I == J(0)
  <2> HIDE DEF I
  <2>1. Picks(c, I)[0] = <<>>
    BY PicksDef
  <2>2. QED
    BY <1>1, <2>1 DEF I
<1>3. \A i \in 0 .. Len(c) : InterfacesOf(c, i) \in Seq(Block)
  <2> SUFFICES ASSUME NEW i \in 0 .. Len(c) PROVE InterfacesOf(c, i) \in Seq(Block)
    OBVIOUS
  <2> DEFINE I == J(i)
  <2> HIDE DEF I
  <2>1. Picks(c, I)[i] \in Seq(Block)
    BY PicksDef
  <2>2. QED
    BY <1>1, <2>1 DEF I
<1>4. ASSUME NEW i \in 1 .. Len(c)
      PROVE  InterfacesOf(c, i) = IF c[i].kind = "shb" THEN <<>>
                                  ELSE IF c[i].kind = "idb" THEN Append(InterfacesOf(c, i - 1), c[i])
                                  ELSE InterfacesOf(c, i - 1)
  <2>1. /\ i \in Nat /\ i - 1 \in Nat /\ i - 1 \in 0 .. Len(c) /\ i \in 0 .. Len(c) /\ i \in 1 .. i
        /\ SectionStart(c, i) = IF c[i].kind = "shb" THEN i ELSE SectionStart(c, i - 1)
        /\ SectionStart(c, i - 1) \in 0 .. i - 1
    BY StartStep
  <2> DEFINE I == J(i)
             K == J(i - 1)
  <2>2. CASE c[i].kind = "shb"
    <3>1. \A j \in 1 .. i : j \in I <=> 0 < j /\ j <= 0
      BY <2>1, <2>2
    <3>2. Picks(c, I)[i] \in Seq(Block) /\ Len(Picks(c, I)[i]) = 0 - 0
      <4>1. 0 \in 0 .. i /\ 0 \in 0 .. 0
        BY <2>1
      <4> HIDE DEF I
      <4>2. Picks(c, I)[i] \in Seq(Block)
        BY <2>1, PicksDef
      <4> DEFINE lo == 0
                 hi == 0
      <4>3. lo \in 0 .. i /\ hi \in lo .. i /\ IsRange(I, i, lo, hi)
        BY <3>1, <4>1 DEF IsRange
      <4> HIDE DEF lo, hi
      <4>4. Len(Picks(c, I)[i]) = hi - lo
        BY <2>1, <4>3, PicksRange
      <4>5. QED
        BY <4>2, <4>4 DEF lo, hi
    <3>3. Picks(c, I)[i] = <<>>
      <4> DEFINE p == Picks(c, I)[i]
      <4> HIDE DEF p
      <4>1. p \in Seq(Block) /\ Len(p) = 0
        BY <3>2 DEF p
      <4>2. p = <<>>
        BY <4>1, EmptySeq
      <4>3. QED
        BY <4>2 DEF p
    <3>4. QED
      BY <1>1, <2>2, <3>3
  <2>3. CASE c[i].kind # "shb"
    <3>1. \A j \in 1 .. i - 1 : c[j] = c[j] /\ (j \in I <=> j \in K)
      BY <2>1, <2>3
    <3>2. i \in I <=> c[i].kind = "idb"
      BY <2>1, <2>3
    <3>3. Picks(c, I)[i - 1] = Picks(c, K)[i - 1]
      <4> DEFINE n == i - 1
      <4>1. n \in Nat /\ n <= Len(c) /\ n \in 0 .. n /\ \A j \in 1 .. n : c[j] = c[j] /\ (j \in I <=> j \in K)
        BY <2>1, <3>1
      <4> HIDE DEF I, K, n
      <4>2. \A j \in 0 .. n : Picks(c, I)[j] = Picks(c, K)[j]
        BY <4>1, PicksAgree
      <4>3. QED
        BY <4>1, <4>2 DEF n
    <3>4. Picks(c, I)[i] = IF i \in I THEN Append(Picks(c, I)[i - 1], c[i]) ELSE Picks(c, I)[i - 1]
      <4> HIDE DEF I
      <4>1. QED
        BY PicksDef
    <3>5. QED
      <4> HIDE DEF I, K
      <4>1. InterfacesOf(c, i) = Picks(c, I)[i] /\ InterfacesOf(c, i - 1) = Picks(c, K)[i - 1]
        BY <1>1 DEF I, K
      <4>2. QED
        BY <2>3, <3>2, <3>3, <3>4, <4>1
  <2>4. QED
    BY <2>2, <2>3
<1>5. \A i \in 1 .. Len(c) : i - 1 \in 0 .. Len(c) /\ i \in 0 .. Len(c)
  OBVIOUS
<1>6. QED
  BY <1>2, <1>3, <1>4, <1>5

\* While a section lasts, the interfaces it has stay the first ones.
LEMMA FacesGrow ==
    ASSUME NEW c \in Seq(Block), NEW e \in 0 .. Len(c), NEW i \in 0 .. e,
           SectionStart(c, e) = SectionStart(c, i)
    PROVE  /\ Len(InterfacesOf(c, i)) <= Len(InterfacesOf(c, e))
           /\ \A k \in 1 .. Len(InterfacesOf(c, i)) : InterfacesOf(c, e)[k] = InterfacesOf(c, i)[k]
<1> DEFINE J(m) == {j \in SectionStart(c, m) + 1 .. m : c[j].kind = "idb"}
           I == J(i)
           K == J(e)
<1>1. InterfacesOf(c, i) = Picks(c, I)[i] /\ InterfacesOf(c, e) = Picks(c, K)[e]
  BY DEF InterfacesOf
<1>2. i \in Nat /\ e \in Nat /\ i <= e /\ i <= Len(c) /\ i \in 0 .. i /\ SectionStart(c, i) \in Nat
  <2>1. i \in Nat /\ e \in Nat /\ i <= e /\ i <= Len(c) /\ i \in 0 .. i
    OBVIOUS
  <2>2. i = 0 \/ i \in 1 .. Len(c)
    BY <2>1
  <2>3. SectionStart(c, i) \in Nat
    BY <2>2, StartStep
  <2>4. QED
    BY <2>1, <2>3
<1>3. \A j \in 1 .. i : c[j] = c[j] /\ (j \in K <=> j \in I)
  BY <1>2
<1> HIDE DEF I, K
<1>4. \A j \in 0 .. i : Picks(c, K)[j] = Picks(c, I)[j]
  BY <1>2, <1>3, PicksAgree
<1>5. Picks(c, K)[i] = Picks(c, I)[i]
  BY <1>2, <1>4
<1>6. /\ Len(Picks(c, K)[i]) <= Len(Picks(c, K)[e])
      /\ \A k \in 1 .. Len(Picks(c, K)[i]) : Picks(c, K)[e][k] = Picks(c, K)[i][k]
  <2> DEFINE T == Block
  <2>1. c \in Seq(T) /\ e \in 0 .. Len(c) /\ i \in 0 .. e
    OBVIOUS
  <2> HIDE DEF T
  <2> DEFINE g == Picks(c, K)
  <2>2. Len(g[i]) <= Len(g[e])
    BY <2>1, PicksGrow
  <2>3. ASSUME NEW k \in 1 .. Len(g[i]) PROVE g[e][k] = g[i][k]
    BY <2>1, PicksGrow
  <2>4. QED
    BY <2>2, <2>3
<1>7. QED
  BY <1>1, <1>5, <1>6

------------------------------------------------------------------------------
(* What classify_block makes of a capture without windows. *)

\* What the loop would have made of c in one window, and of its sections.
All(c) == Classifying(Fresh, c)
SectionsAt(c, i) == All(c)[i].sections

\* Every interface block of c can be parsed.
InterfacesParse(c) == \A i \in DOMAIN c : c[i].kind = "idb" => c[i].parses

\* One block on.
LEMMA AllSteps ==
    ASSUME NEW c \in Seq(Block)
    PROVE  /\ All(c) \in [0 .. Len(c) -> Kept] /\ All(c)[0] = Fresh
           /\ \A i \in 1 .. Len(c) :
                /\ c[i] \in Block /\ i - 1 \in 0 .. Len(c) /\ i \in 0 .. Len(c)
                /\ All(c)[i - 1] \in Kept /\ All(c)[i] = Classify(All(c)[i - 1], c[i])
<1>1. /\ All(c) \in [0 .. Len(c) -> Kept] /\ All(c)[0] = Fresh
      /\ \A i \in 1 .. Len(c) : All(c)[i] = Classify(All(c)[i - 1], c[i])
  BY FreshKept, ClassifyingDef DEF All
<1>2. \A i \in 1 .. Len(c) : c[i] \in Block /\ i - 1 \in 0 .. Len(c) /\ i \in 0 .. Len(c)
  OBVIOUS
<1>3. QED
  BY <1>1, <1>2

\* The sections, one block on.
LEMMA SectionsStep ==
    ASSUME NEW c \in Seq(Block)
    PROVE  /\ SectionsAt(c, 0) = <<>>
           /\ \A i \in 0 .. Len(c) :
                SectionsAt(c, i) \in Seq(Seq(Links)) /\ All(c)[i].section = Len(SectionsAt(c, i))
           /\ \A i \in 1 .. Len(c) : SectionsAt(c, i) = NewSections(SectionsAt(c, i - 1), c[i])
<1>1. SectionsAt(c, 0) = <<>>
  BY AllSteps DEF SectionsAt, Fresh
<1>2. ASSUME NEW i \in 0 .. Len(c)
      PROVE  SectionsAt(c, i) \in Seq(Seq(Links)) /\ All(c)[i].section = Len(SectionsAt(c, i))
  <2>1. All(c)[i] \in Kept
    BY AllSteps
  <2>2. QED
    BY <2>1 DEF Kept, SectionsAt
<1>3. ASSUME NEW i \in 1 .. Len(c) PROVE SectionsAt(c, i) = NewSections(SectionsAt(c, i - 1), c[i])
  <2> DEFINE a == All(c)[i - 1]
             b == c[i]
  <2>1. b \in Block /\ a \in Kept /\ All(c)[i] = Classify(a, b)
    BY AllSteps
  <2> HIDE DEF a, b
  <2>2. Classify(a, b).sections = NewSections(a.sections, b)
    BY <2>1, ClassifyEffect
  <2>3. QED
    BY <2>1, <2>2 DEF SectionsAt, a, b
<1>4. QED
  BY <1>1, <1>2, <1>3

\* The current section has the links of the interfaces a packet may name.
LEMMA CurrentIsFaces ==
    ASSUME NEW c \in Seq(Block), InterfacesParse(c)
    PROVE  \A i \in 0 .. Len(c) :
             /\ Len(Current(SectionsAt(c, i))) = Len(InterfacesOf(c, i))
             /\ \A k \in 1 .. Len(InterfacesOf(c, i)) :
                  Current(SectionsAt(c, i))[k] = InterfacesOf(c, i)[k].link
<1> DEFINE cur(i) == Current(SectionsAt(c, i))
           faces(i) == InterfacesOf(c, i)
           Alike(i) == Len(cur(i)) = Len(faces(i)) /\ \A k \in 1 .. Len(faces(i)) : cur(i)[k] = faces(i)[k].link
           S == {i \in 0 .. Len(c) : Alike(i)}
<1>1. 0 \in S
  BY SectionsStep, FacesStep DEF Current
<1>2. ASSUME NEW i \in 0 .. Len(c) - 1, i \in S PROVE i + 1 \in S
  <2> DEFINE b == c[i + 1]
  <2>1. i + 1 \in 1 .. Len(c) /\ (i + 1) - 1 = i /\ i \in 0 .. Len(c) /\ i + 1 \in 0 .. Len(c)
    OBVIOUS
  <2>2. /\ b \in Block /\ b.link \in Links /\ (b.kind = "idb" => b.parses)
        /\ SectionsAt(c, i) \in Seq(Seq(Links))
        /\ SectionsAt(c, i + 1) = NewSections(SectionsAt(c, i), b)
    BY <2>1, SectionsStep, BlockFacts DEF InterfacesParse
  <2>3. cur(i + 1) = IF b.kind = "shb" THEN <<>>
                     ELSE IF b.kind = "idb" THEN Append(cur(i), b.link) ELSE cur(i)
    <3> DEFINE ss == SectionsAt(c, i)
    <3> HIDE DEF ss, b
    <3>1. ss \in Seq(Seq(Links)) /\ b \in Block
      BY <2>2 DEF ss
    <3>2. Current(NewSections(ss, b)) = IF b.kind = "shb" THEN <<>>
                                        ELSE IF b.kind = "idb" /\ b.parses THEN Append(Current(ss), b.link)
                                        ELSE Current(ss)
      BY <3>1, SectionsEffect
    <3>3. QED
      BY <2>2, <3>2 DEF ss
  <2>4. /\ faces(i) \in Seq(Block)
        /\ faces(i + 1) = IF b.kind = "shb" THEN <<>>
                          ELSE IF b.kind = "idb" THEN Append(faces(i), b) ELSE faces(i)
    BY <2>1, FacesStep
  <2>5. cur(i) \in Seq(Links)
    <3> DEFINE ss == SectionsAt(c, i)
    <3>1. ss = <<>> \/ Len(ss) \in 1 .. Len(ss)
      BY <2>2, EmptySeq
    <3> HIDE DEF ss
    <3>2. Current(ss) \in Seq(Links)
      BY <2>2, <3>1 DEF Current, ss
    <3>3. QED
      BY <3>2 DEF ss
  <2>6. Alike(i)
    BY <1>2
  <2> DEFINE x == cur(i)
             y == faces(i)
             u == cur(i + 1)
             v == faces(i + 1)
  <2>7. Len(u) = Len(v) /\ \A k \in 1 .. Len(v) : u[k] = v[k].link
    <3>1. Len(x) = Len(y) /\ (\A k \in 1 .. Len(y) : x[k] = y[k].link) /\ x \in Seq(Links) /\ y \in Seq(Block)
      BY <2>4, <2>5, <2>6
    <3>2. /\ u = (IF b.kind = "shb" THEN <<>> ELSE IF b.kind = "idb" THEN Append(x, b.link) ELSE x)
          /\ v = (IF b.kind = "shb" THEN <<>> ELSE IF b.kind = "idb" THEN Append(y, b) ELSE y)
      BY <2>3, <2>4
    <3> HIDE DEF x, y, u, v, b
    <3>3. CASE b.kind = "shb"
      BY <3>2, <3>3
    <3>4. CASE b.kind = "idb"
      <4>1. u = Append(x, b.link) /\ v = Append(y, b)
        BY <3>2, <3>4
      <4>2. /\ Len(u) = Len(x) + 1 /\ u[Len(x) + 1] = b.link /\ \A k \in 1 .. Len(x) : u[k] = x[k]
        BY <2>2, <3>1, <4>1
      <4>3. /\ Len(v) = Len(y) + 1 /\ v[Len(y) + 1] = b /\ \A k \in 1 .. Len(y) : v[k] = y[k]
        BY <2>2, <3>1, <4>1
      <4>4. Len(y) \in Nat /\ \A k \in 1 .. Len(y) + 1 : k \in 1 .. Len(y) \/ k = Len(y) + 1
        BY <3>1
      <4>5. QED
        BY <3>1, <4>2, <4>3, <4>4
    <3>5. CASE b.kind # "shb" /\ b.kind # "idb"
      BY <3>1, <3>2, <3>5
    <3>6. QED
      BY <3>3, <3>4, <3>5
  <2>8. QED
    BY <2>1, <2>7
<1> HIDE DEF S
<1>3. \A i \in 0 .. Len(c) : i \in S
  <2>1. Len(c) \in Nat
    OBVIOUS
  <2>2. QED
    BY <1>1, <1>2, <2>1, InductTo
<1>4. QED
  BY <1>3 DEF S

\* A section is what it was when it was last the current one.
LEMMA SectionFrozen ==
    ASSUME NEW c \in Seq(Block), NEW i \in 1 .. Len(c), IsPacket(c[i]), NEW e \in i .. Len(c)
    PROVE  LET s == Len(SectionsAt(c, i))
           IN /\ s \in 1 .. Len(SectionsAt(c, e))
              /\ SectionsAt(c, i)[s] = Current(SectionsAt(c, i))
              /\ \E j \in i .. e : /\ SectionStart(c, j) = SectionStart(c, i)
                                   /\ SectionsAt(c, e)[s] = Current(SectionsAt(c, j))
<1> DEFINE n == Len(c)
           s == Len(SectionsAt(c, i))
           Frozen(m) == \E j \in i .. m : /\ SectionStart(c, j) = SectionStart(c, i)
                                          /\ SectionsAt(c, m)[s] = Current(SectionsAt(c, j))
                                          /\ (j = m /\ Len(SectionsAt(c, m)) = s) \/ Len(SectionsAt(c, m)) > s
           S == {m \in 0 .. n : m < i \/ Frozen(m)}
<1>1. n \in Nat /\ i \in Nat /\ e \in 0 .. n /\ i \in 0 .. n /\ i - 1 \in 0 .. n
  OBVIOUS
<1>2. SectionsAt(c, i) \in Seq(Seq(Links)) /\ s \in Nat \ {0} /\ SectionsAt(c, i) # <<>>
  <2>1. SectionsAt(c, i) = NewSections(SectionsAt(c, i - 1), c[i]) /\ SectionsAt(c, i - 1) \in Seq(Seq(Links))
        /\ SectionsAt(c, i) \in Seq(Seq(Links)) /\ c[i] \in Block
    BY <1>1, SectionsStep
  <2>2. SectionsAt(c, i) # <<>>
    <3> DEFINE ss == SectionsAt(c, i - 1)
               b == c[i]
    <3> HIDE DEF ss, b
    <3>1. b \in Block /\ ss \in Seq(Seq(Links)) /\ IsPacket(b)
      BY <2>1 DEF ss, b
    <3>2. NewSections(ss, b) # <<>>
      BY <3>1, SectionsEffect
    <3>3. QED
      BY <2>1, <3>2 DEF ss, b
  <2>3. QED
    BY <2>1, <2>2, EmptySeq
<1>3. Frozen(i) /\ SectionsAt(c, i)[s] = Current(SectionsAt(c, i))
  <2>1. i \in i .. i
    BY <1>1
  <2>2. SectionsAt(c, i)[s] = Current(SectionsAt(c, i))
    BY <1>2 DEF Current
  <2>3. QED
    BY <2>1, <2>2
<1>4. 0 \in S
  BY <1>1
<1>5. ASSUME NEW m \in 0 .. n - 1, m \in S PROVE m + 1 \in S
  <2>1. m + 1 \in 1 .. n /\ (m + 1) - 1 = m /\ m \in 0 .. n /\ m + 1 \in 0 .. n /\ m \in Nat
    BY <1>1
  <2>2. CASE m + 1 < i
    BY <2>1, <2>2
  <2>3. CASE m + 1 = i
    BY <1>3, <2>1, <2>3
  <2>4. CASE m >= i
    <3> DEFINE b == c[m + 1]
               ss == SectionsAt(c, m)
               tt == SectionsAt(c, m + 1)
    <3>1. b \in Block /\ ss \in Seq(Seq(Links)) /\ tt = NewSections(ss, b) /\ tt \in Seq(Seq(Links))
      BY <2>1, SectionsStep
    <3>2. PICK j \in i .. m : /\ SectionStart(c, j) = SectionStart(c, i)
                              /\ ss[s] = Current(SectionsAt(c, j))
                              /\ (j = m /\ Len(ss) = s) \/ Len(ss) > s
      BY <1>1, <1>5, <2>1, <2>4
    <3> HIDE DEF b, ss, tt
    <3>3. /\ Len(tt) >= Len(ss) /\ (b.kind = "shb" => Len(tt) = Len(ss) + 1)
          /\ (b.kind # "shb" /\ ss # <<>> => Len(tt) = Len(ss))
          /\ \A k \in 1 .. Len(ss) : k < Len(ss) \/ b.kind = "shb" => tt[k] = ss[k]
      BY <3>1, SectionsEffect
    <3>4. Len(ss) \in Nat /\ Len(tt) \in Nat
      BY <3>1
    <3>5. j \in i .. m + 1 /\ m + 1 \in i .. m + 1
      BY <1>1, <2>1, <2>4, <3>2
    <3>6. CASE Len(ss) > s \/ b.kind = "shb"
      <4>1. s \in 1 .. Len(ss)
        BY <1>2, <3>2, <3>4
      <4>2. tt[s] = ss[s]
        BY <3>3, <3>4, <3>6, <4>1
      <4>3. Len(tt) > s
        BY <3>3, <3>4, <3>6, <4>1
      <4>4. Frozen(m + 1)
        BY <3>2, <3>5, <4>2, <4>3 DEF tt
      <4>5. QED
        BY <2>1, <4>4
    <3>7. CASE ~ (Len(ss) > s \/ b.kind = "shb")
      <4>1. j = m /\ Len(ss) = s /\ b.kind # "shb"
        BY <3>2, <3>7
      <4>2. ss # <<>>
        BY <1>2, <4>1
      <4>3. Len(tt) = s /\ tt # <<>>
        BY <1>2, <3>3, <4>1, <4>2
      <4>4. tt[s] = Current(tt)
        BY <4>3 DEF Current
      <4>5. SectionStart(c, m + 1) = SectionStart(c, i)
        BY <2>1, <3>2, <4>1, StartStep DEF b
      <4>6. Frozen(m + 1)
        BY <3>5, <4>3, <4>4, <4>5 DEF tt
      <4>7. QED
        BY <2>1, <4>6
    <3>8. QED
      BY <3>6, <3>7
  <2>5. QED
    BY <1>1, <2>1, <2>2, <2>3, <2>4
<1>6. \A m \in 0 .. n : m \in S
  <2> HIDE DEF S
  <2>1. QED
    BY <1>1, <1>4, <1>5, InductTo
<1>7. Frozen(e)
  BY <1>1, <1>6
<1>8. s \in 1 .. Len(SectionsAt(c, e))
  <2>1. Len(SectionsAt(c, e)) \in Nat
    BY <1>1, SectionsStep
  <2>2. QED
    BY <1>2, <1>7, <2>1
<1>9. QED
  BY <1>3, <1>7, <1>8

\* No packet of c names an interface that its section declares only later.
NamesInOrder(c) ==
    \A i, j \in DOMAIN c :
      i <= j /\ c[i].kind = "simple" /\ SectionStart(c, j) = SectionStart(c, i)
        /\ Named(c[i]) < Len(InterfacesOf(c, j))
      => Named(c[i]) < Len(InterfacesOf(c, i))

\* The link a packet is given in its section, however much later, is that of the
\* interface it names.
LEMMA LinkIsRight ==
    ASSUME NEW c \in Seq(Block), InterfacesParse(c), NamesInOrder(c),
           NEW i \in 1 .. Len(c), c[i].kind = "simple", NEW e \in i .. Len(c)
    PROVE  LET links == SectionsAt(c, e)[Len(SectionsAt(c, i))]
               faces == InterfacesOf(c, i)
               n == Named(c[i])
           IN (IF n < Len(links) THEN links[n + 1] ELSE "none")
                = (IF n < Len(faces) THEN faces[n + 1].link ELSE "none")
<1> DEFINE links == SectionsAt(c, e)[Len(SectionsAt(c, i))]
           faces == InterfacesOf(c, i)
           n == Named(c[i])
<1>1. PICK j \in i .. e : SectionStart(c, j) = SectionStart(c, i) /\ links = Current(SectionsAt(c, j))
  <2>1. IsPacket(c[i])
    BY DEF IsPacket
  <2>2. QED
    BY <2>1, SectionFrozen
<1>2. j \in 0 .. Len(c) /\ i \in 0 .. j /\ i \in 1 .. Len(c) /\ j \in 1 .. Len(c) /\ i <= j /\ DOMAIN c = 1 .. Len(c)
  OBVIOUS
<1> DEFINE later == InterfacesOf(c, j)
<1>3. Len(links) = Len(later) /\ \A k \in 1 .. Len(later) : links[k] = later[k].link
  BY <1>1, <1>2, CurrentIsFaces
<1>4. Len(faces) <= Len(later) /\ \A k \in 1 .. Len(faces) : later[k] = faces[k]
  BY <1>1, <1>2, FacesGrow
<1>5. faces \in Seq(Block) /\ later \in Seq(Block) /\ n \in Nat
  <2>1. faces \in Seq(Block) /\ later \in Seq(Block) /\ c[i] \in Block
    BY <1>2, FacesStep
  <2>2. QED
    BY <2>1, BlockFacts
<1>6. n < Len(later) => n < Len(faces)
  BY <1>1, <1>2 DEF NamesInOrder
<1> HIDE DEF links, faces, later, n
<1>7. Len(faces) \in Nat /\ Len(later) \in Nat /\ (n < Len(links) <=> n < Len(faces))
  BY <1>3, <1>4, <1>5, <1>6
<1>8. CASE n < Len(faces)
  <2>1. n + 1 \in 1 .. Len(faces) /\ n + 1 \in 1 .. Len(later)
    BY <1>4, <1>5, <1>7, <1>8
  <2>2. links[n + 1] = faces[n + 1].link
    BY <1>3, <1>4, <2>1
  <2>3. QED
    BY <1>7, <1>8, <2>2 DEF links, faces, n
<1>9. CASE ~ (n < Len(faces))
  BY <1>7, <1>9 DEF links, faces, n
<1>10. QED
  BY <1>8, <1>9

\* Where the packets among the first k blocks are.
Numbers(c) == [i \in DOMAIN c |-> i]
PacketsTo(c, k) == Picks(Numbers(c), {i \in DOMAIN c : IsPacket(c[i])})[k]

\* The packets, one block on; those met stay where they are.
LEMMA PacketsToStep ==
    ASSUME NEW c \in Seq(Block)
    PROVE  /\ PacketsTo(c, 0) = <<>>
           /\ \A k \in 0 .. Len(c) : PacketsTo(c, k) \in Seq(Nat)
           /\ \A k \in 1 .. Len(c) :
                PacketsTo(c, k) = IF IsPacket(c[k]) THEN Append(PacketsTo(c, k - 1), k)
                                  ELSE PacketsTo(c, k - 1)
           /\ \A k \in 0 .. Len(c) : \A j \in 0 .. k :
                /\ Len(PacketsTo(c, j)) <= Len(PacketsTo(c, k))
                /\ \A m \in 1 .. Len(PacketsTo(c, j)) : PacketsTo(c, k)[m] = PacketsTo(c, j)[m]
<1> DEFINE s == Numbers(c)
           I == {i \in DOMAIN c : IsPacket(c[i])}
           g == Picks(s, I)
<1>1. s \in Seq(Nat) /\ Len(s) = Len(c) /\ \A k \in 1 .. Len(c) : s[k] = k
  <2>1. s \in [1 .. Len(c) -> Nat]
    BY DEF Numbers
  <2>2. QED
    BY <2>1 DEF Numbers
<1>2. \A k \in 1 .. Len(c) : k \in I <=> IsPacket(c[k])
  OBVIOUS
<1> HIDE DEF s, I
<1>3. /\ g \in [0 .. Len(c) -> Seq(Nat)] /\ g[0] = <<>>
      /\ \A k \in 1 .. Len(c) : g[k] = IF k \in I THEN Append(g[k - 1], s[k]) ELSE g[k - 1]
  BY <1>1, PicksDef
<1>4. \A k : PacketsTo(c, k) = g[k]
  BY DEF PacketsTo, s, I
<1>5. ASSUME NEW k \in 0 .. Len(c), NEW j \in 0 .. k
      PROVE  Len(g[j]) <= Len(g[k]) /\ \A m \in 1 .. Len(g[j]) : g[k][m] = g[j][m]
  <2> DEFINE T == Nat
  <2>1. s \in Seq(T) /\ k \in 0 .. Len(s) /\ j \in 0 .. k
    BY <1>1
  <2> HIDE DEF T
  <2>2. Len(g[j]) <= Len(g[k])
    BY <2>1, PicksGrow
  <2>3. ASSUME NEW m \in 1 .. Len(g[j]) PROVE g[k][m] = g[j][m]
    BY <2>1, PicksGrow
  <2>4. QED
    BY <2>2, <2>3
<1> HIDE DEF g
<1>6. \A k \in 1 .. Len(c) : g[k] = IF IsPacket(c[k]) THEN Append(g[k - 1], k) ELSE g[k - 1]
  BY <1>1, <1>2, <1>3
<1>7. \A k \in 1 .. Len(c) : PacketsTo(c, k) = IF IsPacket(c[k]) THEN Append(PacketsTo(c, k - 1), k)
                                                ELSE PacketsTo(c, k - 1)
  BY <1>4, <1>6
<1>8. PacketsTo(c, 0) = <<>> /\ \A k \in 0 .. Len(c) : PacketsTo(c, k) \in Seq(Nat)
  BY <1>3, <1>4
<1>9. \A k \in 0 .. Len(c) : \A j \in 0 .. k :
        /\ Len(PacketsTo(c, j)) <= Len(PacketsTo(c, k))
        /\ \A m \in 1 .. Len(PacketsTo(c, j)) : PacketsTo(c, k)[m] = PacketsTo(c, j)[m]
  BY <1>4, <1>5
<1>10. QED
  BY <1>7, <1>8, <1>9

\* The packets of a capture, each with the section it is in.
LEMMA PacketsAre ==
    ASSUME NEW c \in Seq(Block)
    PROVE  \A k \in 0 .. Len(c) :
             /\ Len(All(c)[k].packets) = Len(PacketsTo(c, k))
             /\ \A m \in 1 .. Len(PacketsTo(c, k)) :
                  /\ PacketsTo(c, k)[m] \in 1 .. k /\ IsPacket(c[PacketsTo(c, k)[m]])
                  /\ All(c)[k].packets[m] = [block |-> c[PacketsTo(c, k)[m]],
                                             section |-> Len(SectionsAt(c, PacketsTo(c, k)[m]))]
<1> DEFINE at(i) == [block |-> c[i], section |-> Len(SectionsAt(c, i))]
           Alike(p, q, k) == /\ Len(p) = Len(q)
                             /\ \A m \in 1 .. Len(q) : q[m] \in 1 .. k /\ IsPacket(c[q[m]]) /\ p[m] = at(q[m])
           S == {k \in 0 .. Len(c) : Alike(All(c)[k].packets, PacketsTo(c, k), k)}
<1>1. 0 \in S
  <2>1. All(c)[0].packets = <<>>
    BY AllSteps DEF Fresh
  <2>2. PacketsTo(c, 0) = <<>> /\ 0 \in 0 .. Len(c) /\ Len(<<>>) = 0 /\ 1 .. 0 = {}
    BY PacketsToStep
  <2>3. Alike(<<>>, <<>>, 0)
    BY <2>2
  <2>4. Alike(All(c)[0].packets, PacketsTo(c, 0), 0)
    <3> HIDE DEF Alike
    <3>1. QED
      BY <2>1, <2>2, <2>3
  <2>5. QED
    BY <2>2, <2>4
<1>2. ASSUME NEW k \in 0 .. Len(c) - 1, k \in S PROVE k + 1 \in S
  <2> DEFINE a == All(c)[k]
             b == c[k + 1]
             p == a.packets
             q == PacketsTo(c, k)
             u == All(c)[k + 1].packets
             v == PacketsTo(c, k + 1)
  <2>1. k + 1 \in 1 .. Len(c) /\ (k + 1) - 1 = k /\ k \in 0 .. Len(c) /\ k + 1 \in 0 .. Len(c) /\ k \in Nat
    OBVIOUS
  <2>2. b \in Block /\ a \in Kept /\ All(c)[k + 1] = Classify(a, b) /\ p \in Seq(Packet)
    BY <2>1, AllSteps DEF Kept
  <2>3. SectionsAt(c, k + 1) = NewSections(a.sections, b)
    BY <2>1, SectionsStep DEF SectionsAt
  <2>4. q \in Seq(Nat) /\ v = IF IsPacket(b) THEN Append(q, k + 1) ELSE q
    BY <2>1, PacketsToStep
  <2>5. u = IF IsPacket(b) THEN Append(p, at(k + 1)) ELSE p
    <3> HIDE DEF a, b
    <3>1. Classify(a, b).packets =
            IF IsPacket(b) THEN Append(a.packets, [block |-> b, section |-> Len(NewSections(a.sections, b))])
            ELSE a.packets
      BY <2>2, ClassifyEffect
    <3>2. QED
      BY <2>2, <2>3, <3>1 DEF b
  <2>6. Alike(p, q, k)
    BY <1>2
  <2>7. Len(p) \in Nat /\ Len(q) \in Nat /\ Len(p) = Len(q)
    BY <2>2, <2>4, <2>6
  <2> DEFINE x == at(k + 1)
  <2>8. x \in Packet
    BY <2>1, <2>2, SectionsStep DEF Packet
  <2>9. CASE IsPacket(b)
    <3> HIDE DEF p, q, u, v, x, at
    <3>1. u = Append(p, x) /\ v = Append(q, k + 1)
      BY <2>4, <2>5, <2>9 DEF x
    <3>2. Len(u) = Len(p) + 1 /\ u[Len(p) + 1] = x /\ \A m \in 1 .. Len(p) : u[m] = p[m]
      BY <2>2, <2>8, <3>1 DEF p
    <3>3. Len(v) = Len(q) + 1 /\ v[Len(q) + 1] = k + 1 /\ \A m \in 1 .. Len(q) : v[m] = q[m]
      BY <2>1, <2>4, <3>1
    <3>4. ASSUME NEW m \in 1 .. Len(v)
          PROVE  v[m] \in 1 .. k + 1 /\ IsPacket(c[v[m]]) /\ u[m] = at(v[m])
      <4>1. CASE m \in 1 .. Len(q)
        <5>1. v[m] = q[m] /\ u[m] = p[m] /\ q[m] \in 1 .. k /\ IsPacket(c[q[m]]) /\ p[m] = at(q[m])
          BY <2>6, <2>7, <3>2, <3>3, <4>1
        <5>2. v[m] \in 1 .. k + 1
          BY <2>1, <5>1
        <5>3. QED
          BY <5>1, <5>2
      <4>2. CASE m = Len(q) + 1
        <5>1. v[m] = k + 1 /\ u[m] = at(k + 1) /\ k + 1 \in 1 .. k + 1 /\ IsPacket(c[k + 1])
          BY <2>1, <2>7, <2>9, <3>2, <3>3, <4>2 DEF x
        <5>2. QED
          BY <5>1
      <4>3. QED
        BY <2>7, <3>3, <4>1, <4>2
    <3>5. Alike(u, v, k + 1)
      BY <2>7, <3>2, <3>3, <3>4
    <3>6. QED
      BY <2>1, <3>5 DEF u, v
  <2>10. CASE ~IsPacket(b)
    <3>1. u = p /\ v = q
      BY <2>4, <2>5, <2>10
    <3>2. Alike(p, q, k + 1)
      <4> HIDE DEF p, q, at
      <4>1. \A m \in 1 .. Len(q) : q[m] \in 1 .. k + 1
        BY <2>1, <2>6
      <4>2. QED
        BY <2>6, <4>1
    <3>3. QED
      BY <2>1, <3>1, <3>2
  <2>11. QED
    BY <2>9, <2>10
<1>3. \A k \in 0 .. Len(c) : k \in S
  <2> HIDE DEF S
  <2>1. Len(c) \in Nat
    OBVIOUS
  <2>2. QED
    BY <1>1, <1>2, <2>1, InductTo
<1>4. QED
  BY <1>3

\* What w has kept of the k blocks after the first lo, against the capture without windows.
Agrees(c, lo, k, w) ==
    /\ w \in Kept /\ w.sections = SectionsAt(c, lo + k)
    /\ Len(All(c)[lo + k].packets) = Len(All(c)[lo].packets) + Len(w.packets)
    /\ \A m \in 1 .. Len(w.packets) :
         All(c)[lo + k].packets[Len(All(c)[lo].packets) + m] = w.packets[m]

\* A window picks up where the one before left.
LEMMA WindowsAgree ==
    ASSUME NEW c \in Seq(Block), NEW lo \in 0 .. Len(c), NEW refs \in Seq(Block),
           lo + Len(refs) <= Len(c), \A k \in 1 .. Len(refs) : refs[k] = c[lo + k],
           NEW a, a = [sections |-> All(c)[lo].sections, section |-> All(c)[lo].section, packets |-> <<>>]
    PROVE  \A k \in 0 .. Len(refs) : Agrees(c, lo, k, Classifying(a, refs)[k])
<1> DEFINE n == Len(refs)
           W == Classifying(a, refs)
           P(i) == All(c)[i].packets
           Grown(p, q, r) == /\ Len(q) = Len(p) + Len(r)
                             /\ \A m \in 1 .. Len(r) : q[Len(p) + m] = r[m]
           S == {k \in 0 .. n : W[k].sections = SectionsAt(c, lo + k) /\ Grown(P(lo), P(lo + k), W[k].packets)}
<1>1. n \in Nat /\ lo \in Nat /\ Len(c) \in Nat
  OBVIOUS
<1>2. \A k \in 0 .. n : lo + k \in 0 .. Len(c)
  BY <1>1
<1>3. a \in Kept
  <2>1. All(c)[lo] \in Kept
    BY AllSteps
  <2>2. <<>> \in Seq(Packet) /\ Len(<<>>) = 0
    OBVIOUS
  <2>3. QED
    BY <2>1, <2>2 DEF Kept
<1>4. /\ W \in [0 .. n -> Kept] /\ W[0] = a
      /\ \A k \in 1 .. n : W[k] = Classify(W[k - 1], refs[k])
  BY <1>3, ClassifyingDef
<1>5. \A i \in 0 .. Len(c) : P(i) \in Seq(Packet)
  BY AllSteps DEF Kept
<1>6. 0 \in S
  <2>1. lo + 0 = lo /\ W[0].sections = SectionsAt(c, lo) /\ W[0].packets = <<>> /\ 0 \in 0 .. n
    BY <1>1, <1>4 DEF SectionsAt
  <2>2. Len(P(lo)) \in Nat
    BY <1>5
  <2>3. Grown(P(lo), P(lo), <<>>)
    <3>1. Len(P(lo)) = Len(P(lo)) + 0 /\ Len(<<>>) = 0 /\ 1 .. 0 = {}
      BY <2>2
    <3> DEFINE p == P(lo)
    <3> HIDE DEF p
    <3>2. Grown(p, p, <<>>)
      BY <3>1 DEF p
    <3>3. QED
      BY <3>2 DEF p
  <2> HIDE DEF Grown, W
  <2>4. QED
    BY <2>1, <2>3
<1>7. ASSUME NEW k \in 0 .. n - 1, k \in S PROVE k + 1 \in S
  <2> DEFINE i == lo + k
             b == c[i + 1]
             w == W[k]
             d == All(c)[i]
  <2>1. /\ k + 1 \in 1 .. n /\ (k + 1) - 1 = k /\ i + 1 \in 1 .. Len(c) /\ (i + 1) - 1 = i /\ lo + (k + 1) = i + 1
        /\ k \in 0 .. n /\ k + 1 \in 0 .. n /\ i \in 0 .. Len(c)
    BY <1>1
  <2>2. b \in Block /\ refs[k + 1] = b
    BY <2>1
  <2>3. w \in Kept /\ d \in Kept /\ W[k + 1] = Classify(w, b) /\ All(c)[i + 1] = Classify(d, b)
    BY <1>4, <2>1, <2>2, AllSteps
  <2>4. w.sections = d.sections /\ Grown(P(lo), d.packets, w.packets)
    BY <1>7 DEF SectionsAt
  <2> HIDE DEF b, w, d
  <2>5. Classify(w, b).sections = Classify(d, b).sections
    <3>1. Classify(w, b).sections = NewSections(w.sections, b)
      BY <2>2, <2>3, ClassifyEffect
    <3>2. Classify(d, b).sections = NewSections(d.sections, b)
      BY <2>2, <2>3, ClassifyEffect
    <3>3. QED
      BY <2>4, <3>1, <3>2
  <2> DEFINE x == [block |-> b, section |-> Len(NewSections(d.sections, b))]
             p == P(lo)
             q == d.packets
             r == w.packets
             qq == Classify(d, b).packets
             rr == Classify(w, b).packets
  <2>6. /\ qq = (IF IsPacket(b) THEN Append(q, x) ELSE q)
        /\ rr = (IF IsPacket(b) THEN Append(r, x) ELSE r)
    BY <2>2, <2>3, <2>4, ClassifyEffect
  <2>7. p \in Seq(Packet) /\ q \in Seq(Packet) /\ r \in Seq(Packet) /\ x \in Packet
    <3>1. q \in Seq(Packet) /\ r \in Seq(Packet) /\ d.sections \in Seq(Seq(Links))
      BY <2>3 DEF Kept
    <3> DEFINE new == NewSections(d.sections, b)
    <3>2. new \in Seq(Seq(Links))
      BY <2>2, <3>1, SectionsEffect
    <3> HIDE DEF new
    <3>3. [block |-> b, section |-> Len(new)] \in Packet
      BY <2>2, <3>2 DEF Packet
    <3>4. QED
      BY <1>5, <3>1, <3>3 DEF new
  <2>8. Grown(p, q, r)
    BY <2>4
  <2> HIDE DEF x, p, q, r, qq, rr
  <2>9. Grown(p, qq, rr)
    <3>1. CASE ~IsPacket(b)
      BY <2>6, <2>8, <3>1
    <3>2. CASE IsPacket(b)
      <4>1. /\ Len(qq) = Len(q) + 1 /\ qq[Len(q) + 1] = x /\ \A m \in 1 .. Len(q) : qq[m] = q[m]
        BY <2>6, <2>7, <3>2
      <4>2. /\ Len(rr) = Len(r) + 1 /\ rr[Len(r) + 1] = x /\ \A m \in 1 .. Len(r) : rr[m] = r[m]
        BY <2>6, <2>7, <3>2
      <4>3. Len(p) \in Nat /\ Len(q) \in Nat /\ Len(r) \in Nat /\ Len(q) = Len(p) + Len(r)
        BY <2>7, <2>8
      <4>4. ASSUME NEW m \in 1 .. Len(rr) PROVE qq[Len(p) + m] = rr[m]
        <5>1. CASE m \in 1 .. Len(r)
          <6>1. Len(p) + m \in 1 .. Len(q) /\ q[Len(p) + m] = r[m]
            BY <2>8, <4>3, <5>1
          <6>2. QED
            BY <4>1, <4>2, <5>1, <6>1
        <5>2. CASE m = Len(r) + 1
          <6>1. Len(p) + m = Len(q) + 1
            BY <4>3, <5>2
          <6>2. QED
            BY <4>1, <4>2, <5>2, <6>1
        <5>3. QED
          BY <4>2, <4>3, <5>1, <5>2
      <4>5. QED
        BY <4>1, <4>2, <4>3, <4>4
    <3>3. QED
      BY <3>1, <3>2
  <2>10. W[k + 1].sections = SectionsAt(c, lo + (k + 1)) /\ Grown(P(lo), P(lo + (k + 1)), W[k + 1].packets)
    BY <2>1, <2>3, <2>5, <2>9 DEF SectionsAt, p, qq, rr
  <2>11. QED
    BY <2>1, <2>10
<1>8. \A k \in 0 .. n : k \in S
  <2> HIDE DEF S, n
  <2>1. QED
    BY <1>1, <1>6, <1>7, InductTo
<1>9. ASSUME NEW k \in 0 .. n PROVE Agrees(c, lo, k, W[k])
  <2>1. W[k] \in Kept
    BY <1>4
  <2>2. k \in S
    BY <1>8
  <2>3. QED
    BY <2>1, <2>2 DEF Agrees
<1>10. QED
  BY <1>9

------------------------------------------------------------------------------
(* --drop and --count, for slices whose end can be counted in 64 bits. *)

\* The end of the slice is no more than UINT64_MAX.
SliceFits == \A a \in Commands : a.take = MaxU64 \/ a.drop + a.take <= MaxU64

\* How many of the first n packets are in the slice.
Count(n) == IF n <= args.drop THEN 0
            ELSE IF args.take = MaxU64 \/ n <= args.drop + args.take THEN n - args.drop
            ELSE args.take

\* A number is its own remainder by a larger one.
LEMMA SmallRemainder ==
    ASSUME NEW n \in Nat, NEW m \in Nat, n <= m
    PROVE  n % (m + 1) = n
BY SMT

\* What a window adds to the slice, and where in the window that is.
LEMMA SliceArithmetic ==
    ASSUME SliceFits, args \in Commands, seen \in Nat, NEW n \in Nat
    PROVE  /\ Count(seen) \in Nat /\ Count(seen + n) = Count(seen) + SliceLength(n)
           /\ SliceLength(n) > 0 => args.drop + Count(seen) = seen + Slice(n).lo
           /\ args.take # MaxU64 => SliceEnd = args.drop + args.take
<1>1. args.drop \in Nat /\ args.take \in Nat /\ MaxU64 \in Nat
      /\ (args.take = MaxU64 \/ args.drop + args.take <= MaxU64)
  BY CommandsAssumption, MaxU64Assumption DEF Command, SliceFits
<1>2. ASSUME args.take # MaxU64 PROVE SliceEnd = args.drop + args.take
  <2> DEFINE x == args.drop + args.take
  <2>1. x \in Nat /\ x <= MaxU64
    BY <1>1, <1>2
  <2> HIDE DEF x
  <2>2. x % (MaxU64 + 1) = x
    BY <1>1, <2>1, SmallRemainder
  <2>3. QED
    BY <2>2 DEF SliceEnd, x
<1> DEFINE d == args.drop
           t == args.take
           all == args.take = MaxU64
           e == IF all THEN 0 ELSE d + t
           lo == Slice(n).lo
           hi == Slice(n).hi
<1>3. \A x \in Nat : x > seen => Min({x - seen, n}) = IF x - seen <= n THEN x - seen ELSE n
  <2> SUFFICES ASSUME NEW x \in Nat, x > seen
               PROVE  Min({x - seen, n}) = IF x - seen <= n THEN x - seen ELSE n
    OBVIOUS
  <2> DEFINE y == x - seen
  <2>1. y \in Int
    OBVIOUS
  <2> HIDE DEF y
  <2>2. Min({y, n}) = IF y <= n THEN y ELSE n
    BY <2>1, MinOfTwo
  <2>3. QED
    BY <2>2 DEF y
<1>4. lo = IF d > seen THEN (IF d - seen <= n THEN d - seen ELSE n) ELSE 0
  <2>1. lo = IF d > seen THEN Min({d - seen, n}) ELSE 0
    BY DEF Slice
  <2>2. d > seen => Min({d - seen, n}) = IF d - seen <= n THEN d - seen ELSE n
    BY <1>1, <1>3
  <2>3. QED
    BY <2>1, <2>2
<1>5. hi = IF all THEN n ELSE IF e > seen THEN (IF e - seen <= n THEN e - seen ELSE n) ELSE 0
  <2>1. CASE all
    BY <2>1 DEF Slice
  <2>2. CASE ~all
    <3>1. SliceEnd = e /\ e \in Nat
      BY <1>1, <1>2, <2>2
    <3>2. hi = IF e > seen THEN Min({e - seen, n}) ELSE 0
      BY <2>2, <3>1 DEF Slice
    <3> HIDE DEF e
    <3>3. e > seen => Min({e - seen, n}) = IF e - seen <= n THEN e - seen ELSE n
      BY <1>3, <3>1
    <3>4. QED
      BY <2>2, <3>2, <3>3
  <2>3. QED
    BY <2>1, <2>2
<1>6. SliceLength(n) = IF lo <= hi THEN hi - lo ELSE 0
  BY DEF SliceLength
<1> DEFINE c0 == Count(seen)
           c1 == Count(seen + n)
           l == SliceLength(n)
<1>7. /\ c0 = (IF seen <= d THEN 0 ELSE IF all \/ seen <= d + t THEN seen - d ELSE t)
      /\ c1 = (IF seen + n <= d THEN 0 ELSE IF all \/ seen + n <= d + t THEN (seen + n) - d ELSE t)
  <2>1. c0 = IF seen <= d THEN 0 ELSE IF all \/ seen <= d + t THEN seen - d ELSE t
    BY DEF Count
  <2> DEFINE x == seen + n
  <2>2. Count(x) = IF x <= d THEN 0 ELSE IF all \/ x <= d + t THEN x - d ELSE t
    <3> HIDE DEF x
    <3>1. QED
      BY DEF Count
  <2> HIDE DEF c0, d, t, all
  <2>3. QED
    BY <2>1, <2>2
<1>8. d \in Nat /\ t \in Nat /\ (~all => e = d + t)
  BY <1>1
<1>9. c0 \in Nat /\ c1 = c0 + l /\ (l > 0 => d + c0 = seen + lo)
  <2> HIDE DEF d, t, e, lo, hi, c0, c1, l
  <2>1. CASE all
    <3> HIDE DEF all
    <3>1. QED
      BY <1>4, <1>5, <1>6, <1>7, <1>8, <2>1 DEF l
  <2>2. CASE ~all
    <3> HIDE DEF all
    <3>1. QED
      BY <1>4, <1>5, <1>6, <1>7, <1>8, <2>2 DEF l
  <2>3. QED
    BY <2>1, <2>2
<1>10. QED
  BY <1>2, <1>9

------------------------------------------------------------------------------
(* The packets table, against the capture as a whole. *)

\* The capture at hand is one of those the theorem is about.
CaptureInOrder == InterfacesParse(capture) /\ NamesInOrder(capture)

\* A row is that of the packet whose number it has.
RowRight(r) == r.id < Len(PacketBlocks) /\ r.link = LinkOf(PacketBlocks[r.id + 1])

\* Between two windows, the converter knows of the capture what it would know without them.
ScanInv ==
    exit # "failure" => /\ sections = SectionsAt(capture, next - 1)
                        /\ seen = Len(PacketsTo(capture, next - 1))

\* The rows written are the slice of the packets seen.
RowsInv ==
    /\ \A k \in 1 .. Len(Written) : RowRight(Written[k])
    /\ exit # "failure" => /\ Len(Written) = Count(seen)
                           /\ \A k \in 1 .. Len(Written) : Written[k].id = args.drop + k - 1

\* The loop ends when all packets are seen, or all of the slice.
EndInv ==
    pc \in {"close", "pdu", "lldp"} \/ exit = "success" =>
      seen = Len(PacketBlocks) \/ (args.take # MaxU64 /\ seen >= args.drop + args.take)

\* Inductive together with IInv.
SliceInv == CaptureInOrder /\ ScanInv /\ RowsInv /\ EndInv

\* The packets of the capture begin with those of its first blocks.
LEMMA PacketBlocksFacts ==
    ASSUME capture \in Captures
    PROVE  /\ PacketBlocks = PacketsTo(capture, Len(capture))
           /\ PacketBlocks \in Seq(Nat) /\ Len(PacketBlocks) \in Nat
           /\ \A j \in 0 .. Len(capture) :
                /\ Len(PacketsTo(capture, j)) \in 0 .. Len(PacketBlocks)
                /\ \A m \in 1 .. Len(PacketsTo(capture, j)) : PacketBlocks[m] = PacketsTo(capture, j)[m]
<1> DEFINE n == Len(capture)
<1>1. capture \in Seq(Block) /\ n \in Nat /\ DOMAIN capture = 1 .. n
  BY CaptureFacts
<1>2. Len(Numbers(capture)) = n
  <2>1. Numbers(capture) \in [1 .. n -> Nat]
    BY <1>1 DEF Numbers
  <2>2. QED
    BY <1>1, <2>1
<1>3. PacketBlocks = PacketsTo(capture, n)
  <2>1. PacketBlocks = Picks(Numbers(capture), {i \in DOMAIN capture : IsPacket(capture[i])})[Len(Numbers(capture))]
    BY DEF PacketBlocks, Numbers, Picked
  <2>2. QED
    BY <1>2, <2>1 DEF PacketsTo
<1> HIDE DEF n
<1>4. n \in 0 .. n /\ (\A j \in 0 .. n : j \in 0 .. n /\ PacketsTo(capture, j) \in Seq(Nat))
  BY <1>1, PacketsToStep DEF n
<1>5. \A j \in 0 .. n : Len(PacketsTo(capture, j)) \in Nat
  BY <1>4
<1>6. \A j \in 0 .. n :
        /\ Len(PacketsTo(capture, j)) <= Len(PacketsTo(capture, n))
        /\ \A m \in 1 .. Len(PacketsTo(capture, j)) : PacketsTo(capture, n)[m] = PacketsTo(capture, j)[m]
  BY <1>1, <1>4, PacketsToStep DEF n
<1>7. QED
  BY <1>3, <1>4, <1>5, <1>6 DEF n

\* A packet is linked as its own section says, although a later one may be current.
LEMMA LinkOfPacket ==
    ASSUME capture \in Captures, CaptureInOrder, NEW e \in 0 .. Len(capture), NEW i \in 1 .. e,
           IsPacket(capture[i]), NEW c, c.sections = SectionsAt(capture, e),
           NEW p, p = [block |-> capture[i], section |-> Len(SectionsAt(capture, i))]
    PROVE  Link(c, p) = LinkOf(i)
<1> DEFINE b == capture[i]
           links == SectionsAt(capture, e)[Len(SectionsAt(capture, i))]
           faces == InterfacesOf(capture, i)
<1>1. capture \in Seq(Block) /\ Len(capture) \in Nat /\ i \in 1 .. Len(capture) /\ e \in i .. Len(capture)
  BY CaptureFacts
<1>2. p.block = b /\ p.section = Len(SectionsAt(capture, i)) /\ c.sections[p.section] = links
  OBVIOUS
<1> HIDE DEF b
<1>3. Link(c, p) = IF b.kind = "record" THEN b.link
                   ELSE IF Named(b) < Len(links) THEN links[Named(b) + 1] ELSE "none"
  BY <1>2 DEF Link
<1>4. LinkOf(i) = IF b.kind = "record" THEN b.link
                  ELSE IF Named(b) < Len(faces) THEN faces[Named(b) + 1].link ELSE "none"
  BY DEF LinkOf, b
<1>5. CASE b.kind = "record"
  BY <1>3, <1>4, <1>5
<1>6. CASE b.kind = "simple"
  <2>1. (IF Named(b) < Len(links) THEN links[Named(b) + 1] ELSE "none")
          = (IF Named(b) < Len(faces) THEN faces[Named(b) + 1].link ELSE "none")
    BY <1>1, <1>6, LinkIsRight DEF b, CaptureInOrder
  <2>2. b.kind # "record"
    BY <1>6
  <2> HIDE DEF links, faces
  <2>3. QED
    BY <1>3, <1>4, <2>1, <2>2
<1>7. QED
  BY <1>5, <1>6 DEF IsPacket, b

\* What a window adds to what was known before it.
LEMMA WindowOfCapture ==
    ASSUME WindowInv, PacketInv, CaptureInOrder, Whole # {},
           sections = SectionsAt(capture, next - 1), seen = Len(PacketsTo(capture, next - 1))
    PROVE  /\ Classified \in Kept /\ Classified.sections = SectionsAt(capture, LastWhole)
           /\ seen + Len(Classified.packets) = Len(PacketsTo(capture, LastWhole))
           /\ \A m \in 1 .. Len(Classified.packets) :
                /\ seen + m \in 1 .. Len(PacketBlocks)
                /\ Link(Classified, Classified.packets[m]) = LinkOf(PacketBlocks[seen + m])
<1> DEFINE lo == next - 1
           e == LastWhole
           c == Classified
           n == Len(c.packets)
           at == PacketsTo(capture, e)
<1>1. /\ capture \in Captures /\ capture \in Seq(Block) /\ Len(capture) \in Nat
      /\ next \in 1 .. Len(capture) + 1 /\ e \in next .. Len(capture)
  BY CaptureFacts, WholeFacts DEF WindowInv
<1> HIDE DEF e
<1>2. lo \in 0 .. Len(capture) /\ e \in 0 .. Len(capture) /\ e \in Nat
  BY <1>1
<1>3. /\ Refs \in Seq(Block) /\ lo + Len(Refs) = e /\ Len(Refs) \in 0 .. Len(Refs)
      /\ \A k \in 1 .. Len(Refs) : Refs[k] = capture[lo + k]
  BY RefsFacts DEF e
<1>4. BeforeWindow = [sections |-> All(capture)[lo].sections, section |-> All(capture)[lo].section, packets |-> <<>>]
  <2>1. All(capture)[lo].section = Len(SectionsAt(capture, lo)) /\ sections = All(capture)[lo].sections
    BY <1>1, <1>2, SectionsStep DEF SectionsAt
  <2>2. section = Len(sections)
    BY DEF PacketInv
  <2>3. QED
    BY <2>1, <2>2 DEF BeforeWindow
<1>5. c = Classifying(BeforeWindow, Refs)[Len(Refs)]
  BY DEF Classified, BeforeWindow
<1> HIDE DEF lo, c
<1>6. /\ c \in Kept /\ c.sections = SectionsAt(capture, e)
      /\ Len(All(capture)[e].packets) = Len(All(capture)[lo].packets) + Len(c.packets)
      /\ \A m \in 1 .. Len(c.packets) :
           All(capture)[e].packets[Len(All(capture)[lo].packets) + m] = c.packets[m]
  <2> DEFINE s == BeforeWindow
             refs == Refs
             l == Len(Refs)
  <2>1. /\ lo \in 0 .. Len(capture) /\ refs \in Seq(Block) /\ lo + Len(refs) <= Len(capture)
        /\ (\A k \in 1 .. Len(refs) : refs[k] = capture[lo + k])
        /\ s = [sections |-> All(capture)[lo].sections, section |-> All(capture)[lo].section, packets |-> <<>>]
        /\ l \in 0 .. Len(refs) /\ lo + l = e /\ c = Classifying(s, refs)[l]
    BY <1>1, <1>2, <1>3, <1>4, <1>5
  <2> HIDE DEF s, refs, l
  <2>2. \A k \in 0 .. Len(refs) : Agrees(capture, lo, k, Classifying(s, refs)[k])
    BY <1>1, <2>1, WindowsAgree
  <2>3. Agrees(capture, lo, l, c)
    BY <2>1, <2>2
  <2>4. QED
    BY <2>1, <2>3 DEF Agrees
<1>7. /\ Len(All(capture)[e].packets) = Len(at) /\ Len(All(capture)[lo].packets) = seen
      /\ \A m \in 1 .. Len(at) :
           /\ at[m] \in 1 .. e /\ IsPacket(capture[at[m]])
           /\ All(capture)[e].packets[m] = [block |-> capture[at[m]], section |-> Len(SectionsAt(capture, at[m]))]
  BY <1>1, <1>2, PacketsAre DEF lo
<1>8. /\ Len(at) \in 0 .. Len(PacketBlocks) /\ Len(PacketBlocks) \in Nat
      /\ \A m \in 1 .. Len(at) : PacketBlocks[m] = at[m]
  BY <1>1, <1>2, PacketBlocksFacts
<1>9. n \in Nat /\ seen \in Nat /\ seen + n = Len(at)
  <2>1. n \in Nat
    BY <1>6 DEF Kept
  <2>2. QED
    BY <1>6, <1>7, <2>1 DEF PacketInv
<1> HIDE DEF at
<1>10. ASSUME NEW m \in 1 .. n
       PROVE  seen + m \in 1 .. Len(PacketBlocks) /\ Link(c, c.packets[m]) = LinkOf(PacketBlocks[seen + m])
  <2> DEFINE j == seen + m
             i == at[j]
             p == c.packets[m]
  <2>1. j \in 1 .. Len(at) /\ j \in 1 .. Len(PacketBlocks)
    <3> HIDE DEF n
    <3>1. QED
      BY <1>8, <1>9
  <2>2. i \in 1 .. e /\ IsPacket(capture[i]) /\ PacketBlocks[j] = i
        /\ p = [block |-> capture[i], section |-> Len(SectionsAt(capture, i))]
    <3>1. All(capture)[e].packets[j] = p
      BY <1>6, <1>7
    <3> HIDE DEF j, p
    <3>2. QED
      BY <1>7, <1>8, <2>1, <3>1
  <2> HIDE DEF i, j, p
  <2>3. Link(c, p) = LinkOf(i)
    BY <1>1, <1>2, <1>6, <2>2, LinkOfPacket
  <2>4. QED
    BY <2>1, <2>2, <2>3 DEF j, p
<1>11. QED
  BY <1>6, <1>9, <1>10 DEF c, e, at

\* So its rows are the next ones of the slice.
LEMMA RowsOfCapture ==
    ASSUME WindowInv, PacketInv, CaptureInOrder, SliceFits, Whole # {},
           sections = SectionsAt(capture, next - 1), seen = Len(PacketsTo(capture, next - 1))
    PROVE  LET rows == RowsOf(Classified)
           IN /\ rows \in Seq(Row)
              /\ Count(seen + Len(Classified.packets)) = Count(seen) + Len(rows)
              /\ \A k \in 1 .. Len(rows) : RowRight(rows[k]) /\ rows[k].id = args.drop + Count(seen) + k - 1
<1> DEFINE c == Classified
           rows == RowsOf(c)
           n == Len(c.packets)
           m == SliceLength(n)
           lo == Slice(n).lo
<1>1. args \in Commands /\ seen \in Nat /\ args.drop \in Nat
  BY CommandsAssumption DEF WindowInv, PacketInv, Command
<1>2. /\ c \in Kept /\ capture \in Captures
      /\ \A k \in 1 .. n : /\ seen + k \in 1 .. Len(PacketBlocks)
                           /\ Link(c, c.packets[k]) = LinkOf(PacketBlocks[seen + k])
  BY WindowOfCapture DEF WindowInv
<1> HIDE DEF c
<1>3. /\ n \in Nat /\ m \in 0 .. n /\ lo \in Nat /\ lo + m <= n
      /\ rows \in Seq(Row) /\ Len(rows) = m
      /\ \A k \in 1 .. m : /\ lo + k \in 1 .. n
                           /\ rows[k].id = seen + lo + k - 1
                           /\ rows[k].link = Link(c, c.packets[lo + k])
  BY <1>1, <1>2, RowsFacts
<1> HIDE DEF n
<1>4. Count(seen) \in Nat /\ Count(seen + n) = Count(seen) + m /\ (m > 0 => args.drop + Count(seen) = seen + lo)
  BY <1>1, <1>3, SliceArithmetic
<1>5. Len(PacketBlocks) \in Nat
  BY <1>2, PacketBlocksFacts
<1> DEFINE x == Count(seen)
<1> HIDE DEF rows, m, lo, x
<1>6. ASSUME NEW k \in 1 .. m
      PROVE  RowRight(rows[k]) /\ rows[k].id = args.drop + x + k - 1
  <2>1. k \in Nat /\ m > 0 /\ args.drop + x = seen + lo /\ x \in Nat
    BY <1>3, <1>4 DEF x
  <2>2. lo + k \in 1 .. n /\ rows[k].id = seen + lo + k - 1 /\ rows[k].link = Link(c, c.packets[lo + k])
    BY <1>3
  <2> DEFINE j == lo + k
             id == rows[k].id
  <2>3. seen + j \in 1 .. Len(PacketBlocks) /\ rows[k].link = LinkOf(PacketBlocks[seen + j])
    BY <1>2, <2>2
  <2>4. seen + j = id + 1 /\ id = args.drop + x + k - 1
    <3> DEFINE q == id
    <3>1. q = seen + lo + k - 1
      BY <2>2
    <3> HIDE DEF q
    <3>2. seen + j = q + 1 /\ q = args.drop + x + k - 1
      BY <1>1, <1>3, <2>1, <3>1
    <3>3. QED
      BY <3>2 DEF q
  <2>5. id < Len(PacketBlocks) /\ rows[k].link = LinkOf(PacketBlocks[id + 1])
    <3> HIDE DEF id, j
    <3>1. id \in Int
      BY <1>1, <2>1, <2>4
    <3>2. QED
      BY <1>5, <2>3, <2>4, <3>1
  <2>6. QED
    BY <2>4, <2>5 DEF RowRight
<1>7. QED
  BY <1>3, <1>4, <1>6 DEF c, n, rows, x

\* What depends on the capture and the command alone.
LEMMA RowsNext ==
    ASSUME UNCHANGED inputs, \A k \in 1 .. Len(Written') : RowRight(Written'[k]),
           exit' # "failure" => /\ Len(Written') = Count(seen')
                                /\ \A k \in 1 .. Len(Written') : Written'[k].id = args.drop + k - 1
    PROVE  RowsInv'
<1>1. capture' = capture /\ args' = args
  BY DEF inputs
<1>2. PacketBlocks' = PacketBlocks
  BY <1>1 DEF PacketBlocks, IsPacket
<1>3. ASSUME NEW k \in 1 .. Len(Written') PROVE RowRight(Written[k])'
  <2> DEFINE r == Written'[k]
             i == PacketBlocks[r.id + 1]
  <2>1. r.id < Len(PacketBlocks) /\ r.link = LinkOf(i)
    BY DEF RowRight
  <2>2. LinkOf(PacketBlocks[Written[k].id + 1])' = LinkOf(i)
    BY <1>1, <1>2 DEF LinkOf
  <2>3. QED
    BY <1>2, <2>1, <2>2 DEF RowRight
<1>4. Count(seen)' = Count(seen')
  BY <1>1 DEF Count
<1>5. QED
  BY <1>1, <1>3, <1>4 DEF RowsInv

\* A step that writes no row.
LEMMA RowsSame ==
    ASSUME RowsInv, UNCHANGED inputs, Written' = Written,
           exit' # "failure" => exit # "failure" /\ seen' = seen
    PROVE  RowsInv'
BY RowsNext DEF RowsInv

\* The capture does not change.
LEMMA CaptureSame == UNCHANGED inputs => (CaptureInOrder' <=> CaptureInOrder) /\ PacketBlocks' = PacketBlocks
BY DEF inputs, CaptureInOrder, PacketBlocks, IsPacket

\* At the start.
LEMMA SliceInit ==
    ASSUME Init, \A c \in Captures : InterfacesParse(c) /\ NamesInOrder(c)
    PROVE  SliceInv
<1>1. /\ capture \in Captures /\ args \in Commands /\ pc = "start" /\ exit = "none" /\ next = 1
      /\ sections = <<>> /\ seen = 0 /\ files = [f \in Files |-> Absent]
  BY DEF Init
<1>2. CaptureInOrder
  BY <1>1 DEF CaptureInOrder
<1>3. capture \in Seq(Block) /\ args.drop \in Nat
  BY <1>1, CaptureFacts, CommandsAssumption DEF Command
<1>4. ScanInv
  <2>1. next - 1 = 0 /\ SectionsAt(capture, 0) = <<>> /\ PacketsTo(capture, 0) = <<>>
    BY <1>1, <1>3, SectionsStep, PacketsToStep
  <2>2. Len(<<>>) = 0
    OBVIOUS
  <2>3. QED
    BY <1>1, <2>1, <2>2 DEF ScanInv
<1>5. Written = <<>> /\ Len(Written) = 0
  <2>1. files["packets"] = Absent /\ Absent.groups = <<>>
    BY <1>1 DEF Files, Absent
  <2>2. Written = <<>>
    BY <2>1, FlattenEmpty DEF Written
  <2>3. QED
    BY <2>2
<1>6. RowsInv
  BY <1>1, <1>3, <1>5 DEF RowsInv, Count
<1>7. EndInv
  BY <1>1 DEF EndInv
<1>8. QED
  BY <1>2, <1>4, <1>6, <1>7 DEF SliceInv

\* Only a window that is written adds to the packets table.
LEMMA WrittenSame ==
    ASSUME WriterInv, [Next]_vars, ~ProcessWindow
    PROVE  Written' = Written
<1> DEFINE p == files["packets"]
<1>1. FileTyped(p) /\ "packets" \in Files /\ "packets" \notin Tables /\ "lldp" \in Tables
  BY DEF WriterInv, Files, Tables
<1>2. ASSUME NEW r, files' = [files EXCEPT !["packets"] = r], r.groups = p.groups
      PROVE  Written' = Written
  BY <1>2, PacketsOnly DEF WriterInv, Written
<1>3. ASSUME NEW t \in Tables, NEW r, files' = [files EXCEPT ![t] = r]
      PROVE  Written' = Written
  BY <1>3, TableOnly DEF WriterInv, Written
<1>4. ASSUME files' = files PROVE Written' = Written
  BY <1>4 DEF Written
<1>5. ASSUME NEW status, NEW r \in Closings(p, status) PROVE r.groups = p.groups
  BY <1>1, ClosingKeeps
<1>6. CASE CannotStart \/ Start
  <2>1. \/ files' = files \/ files' = [files EXCEPT !["packets"] = HandedBack(p)]
        \/ files' = [files EXCEPT !["packets"] = Opened(p)]
    BY <1>6 DEF CannotStart, Start
  <2>2. HandedBack(p).groups = p.groups /\ Opened(p).groups = p.groups
    BY <1>1, OpeningTyped
  <2>3. QED
    BY <1>2, <1>4, <2>1, <2>2
<1>7. CASE LldpRulesFail \/ ScanFails \/ WindowFails
  <2>1. PICK r \in AnyClosing(p) : files' = [files EXCEPT !["packets"] = r]
    BY <1>7 DEF LldpRulesFail, ScanFails, WindowFails, GiveUp
  <2>2. QED
    BY <1>2, <1>5, <2>1 DEF AnyClosing
<1>8. CASE LoopDone \/ NoWholeBlock \/ UNCHANGED vars
  BY <1>4, <1>8 DEF LoopDone, NoWholeBlock, vars
<1>9. CASE ClosePackets
  <2>1. PICK status \in {"OK", "IO_ERROR"} : \E r \in Closings(p, status) : files' = [files EXCEPT !["packets"] = r]
    BY <1>9 DEF ClosePackets
  <2>2. QED
    BY <1>2, <1>5, <2>1
<1>10. ASSUME NEW t \in ToSet(PduTables), SkipTable(t) \/ WriteTable(t) \/ TableFails(t)
       PROVE  Written' = Written
  <2>1. t \in Tables
    BY PduTablesAssumption DEF Tables, Files
  <2>2. CASE SkipTable(t)
    BY <1>4, <2>2 DEF SkipTable
  <2>3. CASE WriteTable(t) \/ TableFails(t)
    <3>1. \E r : files' = [files EXCEPT ![t] = r]
      BY <2>3 DEF WriteTable, TableFails
    <3>2. QED
      BY <1>3, <2>1, <3>1
  <2>4. QED
    BY <1>10, <2>2, <2>3
<1>11. CASE WriteLldp \/ LldpFails
  <2>1. files' = files \/ \E r : files' = [files EXCEPT !["lldp"] = r]
    BY <1>11 DEF WriteLldp, LldpFails
  <2>2. QED
    BY <1>1, <1>3, <1>4, <2>1
<1>12. QED
  BY <1>6, <1>7, <1>8, <1>9, <1>10, <1>11 DEF Next

\* A window: what was known of the capture moves on with it, and so does the slice.
LEMMA SliceWindow ==
    ASSUME SliceFits, WindowInv, PacketInv, StageInv, WriterInv, FilesInv, SliceInv, ProcessWindow
    PROVE  SliceInv'
<1> DEFINE rows == RowsOf(Classified)
           c == Classified
<1>1. /\ pc = "scan" /\ Whole # {} /\ exit = "none" /\ exit' = exit /\ UNCHANGED inputs
      /\ TakePackets(Classified, RowsOf(Classified)) /\ Consume /\ capture \in Captures
  BY DEF ProcessWindow, StageInv, WindowInv
<1>2. sections = SectionsAt(capture, next - 1) /\ seen = Len(PacketsTo(capture, next - 1))
      /\ CaptureInOrder
  BY <1>1 DEF SliceInv, ScanInv
<1>3. /\ Len(capture) \in Nat /\ next \in 1 .. Len(capture) + 1 /\ LastWhole \in next .. Len(capture)
  BY <1>1, CaptureFacts, WholeFacts DEF WindowInv
<1>4. /\ c.sections = SectionsAt(capture, LastWhole)
      /\ seen + Len(c.packets) = Len(PacketsTo(capture, LastWhole))
  BY <1>1, <1>2, WindowOfCapture
<1>5. /\ rows \in Seq(Row) /\ Count(seen + Len(c.packets)) = Count(seen) + Len(rows)
      /\ \A k \in 1 .. Len(rows) : RowRight(rows[k]) /\ rows[k].id = args.drop + Count(seen) + k - 1
  BY <1>1, <1>2, RowsOfCapture
<1>6. Written \in Seq(Row) /\ Written' = Written \o rows
  BY WrittenWindow
<1>7. sections' = c.sections /\ seen' = seen + Len(c.packets) /\ next' = LastWhole + 1
  BY <1>1 DEF TakePackets, Consume
<1> HIDE DEF rows, c
<1>8. ScanInv'
  <2>1. next' - 1 = LastWhole
    BY <1>3, <1>7
  <2>2. capture' = capture /\ next' - 1 = LastWhole
    BY <1>1, <2>1 DEF inputs
  <2>3. QED
    BY <1>4, <1>7, <2>2 DEF ScanInv
<1>9. RowsInv'
  <2> DEFINE m == Len(Written)
             n == Len(rows)
             x == Count(seen)
             d == args.drop
             w == Written \o rows
  <2>1. /\ m \in Nat /\ n \in Nat /\ Len(w) = m + n
        /\ \A k \in 1 .. m + n : w[k] = IF k <= m THEN Written[k] ELSE rows[k - m]
    BY <1>5, <1>6, ConcatProperties
  <2>2. m = x /\ \A k \in 1 .. m : RowRight(Written[k]) /\ Written[k].id = d + k - 1
    BY <1>1 DEF SliceInv, RowsInv
  <2>3. d \in Nat
    BY CommandsAssumption DEF WindowInv, Command
  <2>4. \A k \in 1 .. n : RowRight(rows[k]) /\ rows[k].id = d + x + k - 1
    BY <1>5
  <2>5. Count(seen') = x + n
    BY <1>5, <1>7
  <2> HIDE DEF m, n, x, d, w
  <2>6. ASSUME NEW k \in 1 .. m + n PROVE RowRight(w[k]) /\ w[k].id = d + k - 1
    <3>1. CASE k <= m
      BY <2>1, <2>2, <3>1
    <3>2. CASE k > m
      <4>1. k - m \in 1 .. n /\ w[k] = rows[k - m]
        BY <2>1, <3>2
      <4>2. RowRight(rows[k - m]) /\ rows[k - m].id = d + x + (k - m) - 1
        BY <2>4, <4>1
      <4>3. d + x + (k - m) - 1 = d + k - 1
        BY <2>1, <2>2, <2>3
      <4>4. QED
        BY <4>1, <4>2, <4>3
    <3>3. QED
      BY <2>1, <3>1, <3>2
  <2>7. Written' = w
    BY <1>6 DEF w
  <2>8. Len(Written') = Count(seen')
    BY <2>1, <2>2, <2>5, <2>7
  <2>9. \A k \in 1 .. Len(Written') : RowRight(Written'[k]) /\ Written'[k].id = d + k - 1
    BY <2>1, <2>6, <2>7
  <2>10. QED
    BY <1>1, <2>8, <2>9, RowsNext DEF d
<1>10. EndInv'
  <2>1. pc' = "close" => args.take # MaxU64 /\ seen' >= SliceEnd
    BY <1>1 DEF Consume
  <2>2. args.take # MaxU64 => SliceEnd = args.drop + args.take
    <3>1. args \in Commands /\ seen \in Nat /\ 0 \in Nat
      BY DEF WindowInv, PacketInv
    <3>2. QED
      BY <3>1, SliceArithmetic
  <2>3. pc' \in {"scan", "close"} /\ exit' # "success" /\ args' = args
    BY <1>1 DEF Consume, inputs
  <2>4. QED
    BY <2>1, <2>2, <2>3 DEF EndInv
<1>11. QED
  BY <1>1, <1>2, <1>8, <1>9, <1>10, CaptureSame DEF SliceInv

\* The loop is left at the end of the capture, or before a last block that is cut short.
LEMMA LoopEnds ==
    ASSUME WindowInv, StageInv, SliceInv, pc = "scan", LoopDone \/ (NoWholeBlock /\ eof)
    PROVE  seen = Len(PacketBlocks)
<1> DEFINE n == Len(capture)
<1>1. /\ capture \in Captures /\ capture \in Seq(Block) /\ n \in Nat /\ next \in 1 .. n + 1
      /\ capacity \in Nat \ {0} /\ valid = Min({capacity, Rest(next)})
      /\ (eof <=> Rest(next) < capacity)
  BY CaptureFacts DEF WindowInv
<1>2. seen = Len(PacketsTo(capture, next - 1))
  BY DEF SliceInv, ScanInv, StageInv
<1>3. Rest(next) \in Nat /\ Rest(n + 1) = 0
  BY <1>1, RestFacts
<1>4. valid = IF capacity <= Rest(next) THEN capacity ELSE Rest(next)
  <2> DEFINE r == Rest(next)
  <2> HIDE DEF r
  <2>1. Min({capacity, r}) = IF capacity <= r THEN capacity ELSE r
    BY <1>3, <1>1, MinOfTwo DEF r
  <2>2. QED
    BY <1>1, <2>1 DEF r
<1>5. ASSUME next <= n
      PROVE  /\ next \in 1 .. n /\ capture[next].size \in Nat \ {0} /\ Bytes(next, next) = capture[next].size
             /\ Rest(next) >= capture[next].size
  <2>1. next \in 1 .. n /\ next + 1 \in 1 .. n + 1 /\ next \in 1 .. n + 1 /\ next <= next + 1
        /\ (next + 1) - 1 = next
    BY <1>1, <1>5
  <2>2. capture[next].size \in Nat \ {0} /\ Bytes(next, next) = capture[next].size
    BY <1>1, <2>1, CaptureFacts, BytesFacts
  <2>3. Rest(next) = Bytes(next, next) + Rest(next + 1) /\ Rest(next + 1) \in Nat
    BY <1>1, <2>1, RestFacts
  <2>4. QED
    BY <2>1, <2>2, <2>3
<1>6. PacketBlocks = PacketsTo(capture, n)
  BY <1>1, PacketBlocksFacts
<1>7. CASE LoopDone
  <2>1. valid = 0
    BY <1>7 DEF LoopDone
  <2>2. ~ (next <= n)
    BY <1>1, <1>3, <1>4, <1>5, <2>1
  <2>3. next - 1 = n
    BY <1>1, <2>2
  <2>4. QED
    BY <1>2, <1>6, <2>3
<1>8. CASE NoWholeBlock /\ eof
  <2>1. valid > 0 /\ Whole = {} /\ valid = Rest(next)
    BY <1>1, <1>3, <1>4, <1>8 DEF NoWholeBlock
  <2>2. next <= n
    <3>1. next # n + 1
      BY <1>3, <2>1
    <3>2. QED
      BY <1>1, <3>1
  <2>3. capture[next].kind = "cut"
    <3>1. next \in next .. n /\ next \notin Whole /\ Bytes(next, next) <= valid
      BY <1>3, <1>5, <2>1, <2>2
    <3>2. QED
      BY <3>1 DEF Whole
  <2>4. next = n /\ next \in 1 .. n
    BY <1>1, <1>5, <2>2, <2>3, CaptureFacts
  <2>5. PacketsTo(capture, n) = PacketsTo(capture, n - 1)
    <3>1. ~IsPacket(capture[n])
      BY <2>3, <2>4 DEF IsPacket
    <3>2. QED
      BY <1>1, <2>4, <3>1, PacketsToStep
  <2>6. QED
    BY <1>2, <1>6, <2>4, <2>5
<1>9. QED
  BY <1>7, <1>8

\* Every step keeps it.
LEMMA SliceKept ==
    ASSUME SliceFits, IInv, SliceInv, [Next]_vars
    PROVE  SliceInv'
<1>1. CASE ProcessWindow
  BY <1>1, SliceWindow DEF IInv
<1>2. CASE ~ProcessWindow
  <2>1. Written' = Written
    BY <1>2, WrittenSame DEF IInv
  <2>2. StageInv /\ WindowInv
    BY DEF IInv
  <2>3. /\ UNCHANGED inputs
        /\ exit' # "failure" => /\ exit # "failure" /\ UNCHANGED <<next, packetVars>>
                                /\ \/ pc' \notin {"close", "pdu", "lldp"} /\ exit' # "success"
                                   \/ pc \in {"close", "pdu", "lldp"} \/ exit = "success"
                                   \/ pc = "scan" /\ (LoopDone \/ (NoWholeBlock /\ eof))
    <3>1. CASE CannotStart \/ LldpRulesFail \/ ScanFails \/ WindowFails
      BY <3>1 DEF CannotStart, LldpRulesFail, ScanFails, WindowFails, GiveUp, Finish
    <3>2. CASE Start
      BY <2>2, <3>2 DEF Start, StageInv
    <3>3. CASE LoopDone
      BY <2>2, <3>3 DEF LoopDone, StageInv, windowVars
    <3>4. CASE NoWholeBlock
      BY <2>2, <3>4 DEF NoWholeBlock, Refill, StageInv
    <3>5. CASE ClosePackets
      BY <2>2, <3>5 DEF ClosePackets, StageInv, windowVars
    <3>6. ASSUME NEW t, SkipTable(t) \/ WriteTable(t) \/ TableFails(t)
          PROVE  /\ pc = "pdu" /\ UNCHANGED <<inputs, next, packetVars>>
      BY <3>6 DEF SkipTable, WriteTable, TableFails, AtTable, windowVars
    <3>7. CASE WriteLldp \/ LldpFails
      BY <2>2, <3>7 DEF WriteLldp, LldpFails, StageInv, windowVars
    <3>8. CASE UNCHANGED vars
      BY <3>8 DEF vars, windowVars
    <3>9. QED
      BY <1>2, <2>2, <3>1, <3>2, <3>3, <3>4, <3>5, <3>6, <3>7, <3>8 DEF Next, StageInv
  <2>4. CaptureInOrder' /\ PacketBlocks' = PacketBlocks /\ capture' = capture /\ args' = args
    BY <2>3, CaptureSame DEF SliceInv, inputs
  <2>5. ScanInv'
    BY <2>3, <2>4 DEF SliceInv, ScanInv, packetVars
  <2>6. RowsInv'
    BY <2>1, <2>3, RowsSame DEF SliceInv, packetVars
  <2>7. EndInv'
    <3>1. ASSUME pc' \in {"close", "pdu", "lldp"} \/ exit' = "success"
          PROVE  seen' = Len(PacketBlocks') \/ (args'.take # MaxU64 /\ seen' >= args'.drop + args'.take)
      <4>1. exit' # "failure"
        <5>1. StageInv'
          BY StageKept DEF IInv
        <5>2. QED
          BY <3>1, <5>1 DEF StageInv
      <4>2. seen' = seen
        BY <2>3, <4>1 DEF packetVars
      <4>3. CASE pc \in {"close", "pdu", "lldp"} \/ exit = "success"
        BY <2>4, <4>2, <4>3 DEF SliceInv, EndInv
      <4>4. CASE pc = "scan" /\ (LoopDone \/ (NoWholeBlock /\ eof))
        BY <2>2, <2>4, <4>2, <4>4, LoopEnds
      <4>5. QED
        BY <2>3, <3>1, <4>1, <4>3, <4>4
    <3>2. QED
      BY <3>1 DEF EndInv
  <2>8. QED
    BY <2>4, <2>5, <2>6, <2>7 DEF SliceInv
<1>3. QED
  BY <1>1, <1>2

\* The slice of the first packets, as a sequence of their numbers.
LEMMA SliceOfFirst ==
    ASSUME args \in Commands, NEW last \in Nat
    PROVE  LET s == [k \in 1 .. last |-> k - 1]
               I == {k \in 1 .. last : InSlice(k - 1)}
           IN /\ Picked(s, I) \in Seq(Nat) /\ Len(Picked(s, I)) = Count(last)
              /\ \A k \in 1 .. Count(last) : Picked(s, I)[k] = args.drop + k - 1
<1> DEFINE s == [k \in 1 .. last |-> k - 1]
           I == {k \in 1 .. last : InSlice(k - 1)}
           d == args.drop
           t == args.take
           all == args.take = MaxU64
           lo == IF d <= last THEN d ELSE last
           hi == IF all \/ last <= d + t THEN last ELSE d + t
           x == Count(last)
<1>1. d \in Nat /\ t \in Nat
  BY CommandsAssumption, MaxU64Assumption DEF Command
<1>2. s \in Seq(Nat) /\ Len(s) = last /\ \A k \in 1 .. last : s[k] = k - 1
  <2>1. s \in [1 .. last -> Nat]
    OBVIOUS
  <2>2. QED
    BY <2>1
<1>3. \A k \in 1 .. last : k \in I <=> (k - 1 >= d /\ (all \/ k - 1 < d + t))
  BY DEF InSlice
<1>4. x = IF last <= d THEN 0 ELSE IF all \/ last <= d + t THEN last - d ELSE t
  BY DEF Count
<1> HIDE DEF s, I, d, t, all, x
<1>5. lo \in 0 .. last /\ hi \in lo .. last /\ x = hi - lo /\ (x > 0 => lo = d)
  <2>1. CASE all
    BY <1>1, <1>4, <2>1
  <2>2. CASE ~all
    BY <1>1, <1>4, <2>2
  <2>3. QED
    BY <2>1, <2>2
<1>6. \A k \in 1 .. last : k \in I <=> lo < k /\ k <= hi
  <2>1. CASE all
    BY <1>1, <1>3, <2>1
  <2>2. CASE ~all
    BY <1>1, <1>3, <2>2
  <2>3. QED
    BY <2>1, <2>2
<1> HIDE DEF lo, hi
<1>7. /\ Len(Picks(s, I)[last]) = hi - lo
      /\ \A k \in 1 .. hi - lo : \A j \in 1 .. last : j = lo + k => Picks(s, I)[last][k] = s[j]
  <2> DEFINE T == Nat
  <2>1. s \in Seq(T)
    BY <1>2
  <2> HIDE DEF T
  <2>2. last \in 0 .. Len(s) /\ lo \in 0 .. last /\ hi \in lo .. last
        /\ IsRange(I, last, lo, hi)
    BY <1>2, <1>5, <1>6 DEF IsRange
  <2>3. Len(Picks(s, I)[last]) = hi - lo
    BY <2>1, <2>2, PicksRange
  <2>4. \A k \in 1 .. hi - lo : \A j \in 1 .. last : j = lo + k => Picks(s, I)[last][k] = s[j]
    BY <2>1, <2>2, PicksRange
  <2>5. QED
    BY <2>3, <2>4
<1>8. Picked(s, I) = Picks(s, I)[last] /\ Picked(s, I) \in Seq(Nat)
  <2>1. Picked(s, I) \in Seq(Nat)
    BY <1>2, PickedTyped
  <2>2. QED
    BY <1>2, <2>1 DEF Picked
<1>9. ASSUME NEW k \in 1 .. x PROVE Picked(s, I)[k] = d + k - 1
  <2> DEFINE j == lo + k
  <2>1. k \in 1 .. hi - lo /\ lo = d /\ j \in 1 .. last /\ j - 1 = d + k - 1
    BY <1>1, <1>5
  <2>2. Picks(s, I)[last][k] = s[j]
    BY <1>7, <2>1
  <2> HIDE DEF j
  <2>3. s[j] = j - 1
    BY <1>2, <2>1
  <2>4. QED
    BY <1>8, <2>1, <2>2, <2>3
<1>10. QED
  BY <1>5, <1>7, <1>8, <1>9 DEF s, I, d, x

\* For captures whose interface blocks parse and come before the packets that name them,
\* and for slices whose end can be counted in 64 bits: however the windows fall, the
\* packets table holds the slice --drop and --count ask for, each packet once, in order,
\* under its number in the whole capture and with the link type of its own interface.
THEOREM PacketsAreTheCapture ==
    ASSUME SliceFits, \A c \in Captures : InterfacesParse(c) /\ NamesInOrder(c)
    PROVE  Spec => []PacketsOK
<1>1. ASSUME IInv, SliceInv PROVE Written \in Seq(Row) /\ args \in Commands /\ seen \in Nat /\ args.drop \in Nat
                                  /\ args.take \in Nat /\ capture \in Captures
  <2>1. files["packets"].groups \in Seq(Seq(Row)) /\ args \in Commands /\ capture \in Captures /\ seen \in Nat
    BY <1>1 DEF IInv, FilesInv, WindowInv, PacketInv
  <2>2. QED
    BY <2>1, FlattenTyped, CommandsAssumption, MaxU64Assumption DEF Written, Command
<1>2. ASSUME IInv, SliceInv PROVE RowsAreTheSlice
  <2> DEFINE last == IF exit = "success" THEN Len(PacketBlocks) ELSE seen
             s == [k \in 1 .. last |-> k - 1]
             I == {k \in 1 .. last : InSlice(k - 1)}
  <2> SUFFICES ASSUME exit # "failure" PROVE Ids(Written) = Picked(s, I)
    BY DEF RowsAreTheSlice
  <2>1. Len(Written) = Count(seen) /\ \A k \in 1 .. Len(Written) : Written[k].id = args.drop + k - 1
    BY <1>2 DEF SliceInv, RowsInv
  <2>2. last \in Nat /\ Count(last) = Count(seen)
    <3>1. CASE exit = "success"
      <4>1. seen = Len(PacketBlocks) \/ (args.take # MaxU64 /\ seen >= args.drop + args.take)
        BY <1>2, <3>1 DEF SliceInv, EndInv
      <4>2. seen = Len(PacketsTo(capture, next - 1)) /\ next - 1 \in 0 .. Len(capture)
        <5>1. Len(capture) \in Nat
          BY <1>1, <1>2, CaptureFacts
        <5>2. QED
          BY <1>2, <5>1 DEF SliceInv, ScanInv, IInv, WindowInv
      <4> DEFINE l == Len(PacketBlocks)
      <4>3. l \in Nat /\ seen <= l
        BY <1>1, <1>2, <4>2, PacketBlocksFacts
      <4> HIDE DEF l
      <4>4. seen = l \/ (args.take # MaxU64 /\ seen >= args.drop + args.take)
        BY <4>1 DEF l
      <4>5. Count(l) = Count(seen)
        BY <1>1, <1>2, <4>3, <4>4 DEF Count
      <4>6. QED
        BY <3>1, <4>3, <4>5 DEF l
    <3>2. CASE exit # "success"
      BY <1>1, <1>2, <3>2
    <3>3. QED
      BY <3>1, <3>2
  <2>3. /\ Ids(Written) \in Seq(Nat) /\ Len(Ids(Written)) = Len(Written)
        /\ \A k \in 1 .. Len(Written) : Ids(Written)[k] = Written[k].id
    BY <1>1, <1>2, IdsFacts
  <2> HIDE DEF last
  <2>4. /\ Picked(s, I) \in Seq(Nat) /\ Len(Picked(s, I)) = Count(last)
        /\ \A k \in 1 .. Count(last) : Picked(s, I)[k] = args.drop + k - 1
    BY <1>1, <1>2, <2>2, SliceOfFirst
  <2> DEFINE a == Ids(Written)
             b == Picked(s, I)
             x == Count(seen)
  <2> HIDE DEF s, I
  <2>5. a \in Seq(Nat) /\ b \in Seq(Nat) /\ Len(a) = x /\ Len(b) = x
        /\ \A k \in 1 .. x : a[k] = args.drop + k - 1 /\ b[k] = args.drop + k - 1
    BY <2>1, <2>2, <2>3, <2>4
  <2> HIDE DEF a, b, x
  <2>6. \A k \in 1 .. x : a[k] = b[k]
    BY <2>5
  <2>7. a = b
    BY <2>5, <2>6
  <2>8. QED
    BY <2>7 DEF a, b
<1>3. ASSUME IInv, SliceInv PROVE LinkIsOfInterface
  <2>1. DOMAIN Written = 1 .. Len(Written)
    BY <1>1, <1>3
  <2>2. QED
    BY <1>3, <2>1 DEF LinkIsOfInterface, SliceInv, RowsInv, RowRight
<1>4. Init => IInv /\ SliceInv
  BY InitHolds, SliceInit
<1>5. IInv /\ SliceInv /\ [Next]_vars => (IInv /\ SliceInv)'
  BY StepKeeps, SliceKept
<1>6. IInv /\ SliceInv => PacketsOK
  BY <1>2, <1>3 DEF PacketsOK
<1>7. QED
  BY <1>4, <1>5, <1>6, PTL DEF Spec
==============================================================================
