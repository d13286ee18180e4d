------------------------------- MODULE MCBoard -------------------------------
(***************************************************************************)
(* Board for TLC: one machine for every memory map and every expansion,    *)
(* with the port values that tell their banks apart, and for addresses     *)
(* the two ends of every region any map distinguishes.                     *)
(***************************************************************************)
EXTENDS Board

Machine(model, speedup, romSize, card) ==
  [model |-> model, speedup |-> speedup, romSize |-> romSize, memSize |-> 65536, card |-> card]

Selector == Machine(1, 1, \h3000, "selector")
Xmem == Machine(1, 1, \h3000, "xmem80")
Soft == Machine(1, 1, \h3000, "lubomir")
Plain == Machine(1, 1, \h3800, "none")
Plain48K == [Plain EXCEPT !.memSize = 49152]
Video80Z == Machine(1, 2, \h3000, "none")
Super1 == Machine(1, 1, \h3000, "supermem")
Kit == Machine(1, 4, \h3000, "none")
Genie == Machine(1, 1, \h2000, "none")
Eg3200 == Machine(1, 1, \h1000, "none")
Ct80 == Machine(1, 5, \h37E0, "none")
Ct80Disk == Machine(1, 5, \h3000, "none")
Lnw == Machine(1, 6, \h3000, "none")
Speed == Machine(1, 7, \h3000, "none")
Vid80 == Machine(3, 1, \h3800, "none")
Brewer == Machine(3, 4, \h3800, "none")
Cp500 == Machine(3, 1, \h3800, "cp500")
Mega3 == Machine(3, 1, \h3800, "megamem")
Super4 == Machine(4, 1, \h3800, "supermem")
Hyper4 == Machine(4, 1, \h3800, "hypermem")
Huffman4 == Machine(4, 1, \h3800, "huffman")
Mega4 == Machine(4, 1, \h3800, "megamem")
Model4P == Machine(5, 1, \h1000, "none")

AllBuilds == {Selector, Xmem, Soft, Plain, Plain48K, Video80Z, Super1, Kit, Genie, Eg3200, Ct80,
              Ct80Disk, Lnw, Speed, Vid80, Brewer, Cp500, Mega3, Super4, Hyper4, Huffman4, Mega4,
              Model4P}
GenieOnly == {Genie}

Values(port, values) == {<<port, v>> : v \in values}

\* The CRTC's start address: 0, 4, 1024, which begins with video[0], and 1028.
CrtcWrites(select, data) == Values(select, {\h0C, \h0D}) \cup Values(data, {0, 4})

\* The mode register of the Model 4: banks 0, 2, 3, 6 and 7, maps 0 to 3, page 1.
ModeWrites == Values(\h84, {\h00, \h21, \h32, \h63, \h73, \h80})

WritesOf(m) ==
     CASE m = Selector -> Values(\h1F, {bits + mode : bits \in {0, 8, \h38, \hF8}, mode \in 0 .. 7})
       [] m = Xmem -> UNION {Values(p, {0, 1, 31}) : p \in \h41 .. \h43}
       [] m = Soft -> Values(\hC0, {0, \h10, \h20, \h40, \h80, \hF0})
       [] m = Plain -> Values(\hDF, {0, 1, 7, 8, 9, 14})
       [] m = Plain48K -> Values(\hDF, {7, 10, 11, 12, 13})
       [] m = Video80Z -> Values(\hD2, {0, 1, 5, 7, 8}) \cup Values(\hD0, {\h0D})
                          \cup Values(\hD1, {0, 80})
       [] m = Super1 -> Values(\h43, {0, 1, \h3F})
       [] m = Kit -> Values(\hFE, {0, 1, \h10}) \cup Values(\hD2, {1, 5, 8})
       [] m = Genie -> Values(\hF9, {0, \h41, \hC2}) \cup Values(\hFB, {0, 1, \h83})
                       \cup Values(\hFA, {0, 4, 5, 8, \h15, \h24}) \cup CrtcWrites(\hF6, \hF7)
       [] m = Eg3200 -> Values(\hFA, {0, 1, 2, 4, 8, \h0F}) \cup Values(\h28, {0, 1, \h0F})
       [] m = Ct80 -> Values(\hFE, {0, 2, 4, 8, \h0C, \h20}) \cup Values(\hFC, {\h0D})
                      \cup Values(\hFD, {0, 80})
       [] m = Ct80Disk -> Values(\hD3, {\hFE}) \cup Values(\hD5, {\hFF})
                          \cup Values(\hD7, {\h3F, \hFF}) \cup Values(\hD1, {0})
       [] m = Lnw -> Values(\h1F, {0, 1, 3, \h0B, \h12, \h48, \hC0}) \cup Values(\hFE, {0, 2, 8})
       [] m = Speed -> Values(\hFE, {0, 1, 4, 8, \h20, \h80, \h81}) \cup Values(\h7E, {0, 4, \h0C, \h10, \h3C})
       [] m = Vid80 -> Values(\h3F, {0, 1, 4, 8, \h0C, \h11, \h1A, \h40, \h48})
       [] m = Brewer -> Values(\hEC, {0, 1, \h40})
       [] m = Cp500 -> Values(\h3C, {\h0D}) \cup Values(\h3D, {0, 80})
       [] m = Mega3 -> UNION {Values(p, {0, \h40, \hFF}) : p \in \h50 .. \h52}
       [] m = Super4 -> Values(\h43, {0, 1, \h3F}) \cup ModeWrites
       [] m = Hyper4 -> Values(\h90, {0, 2, \h1E}) \cup ModeWrites
       [] m = Huffman4 -> Values(\h94, {0, 1, \h1F}) \cup ModeWrites
       [] m = Mega4 -> Values(\h50, {0, \h40}) \cup Values(\h52, {\hFF}) \cup ModeWrites
       [] m = Model4P -> Values(\h9C, {0, 1}) \cup ModeWrites
       [] OTHER -> {}

\* A machine that is not yet a Genie IIIs is turned into one first.
Build(b) == Machine(b.model, b.speedup, b.romSize, b.card)
McWrites(b) ==
  LET m == [Build(b) EXCEPT !.memSize = b.memSize]
  IN  IF m = Genie /\ b.clone = "none" THEN Values(\hF9, {0, \h41}) ELSE WritesOf(m)

\* Any Model III may switch; the CP-500 goes through all of its modes.
McModes(b) ==
  IF b.card = "cp500" \/ Build(b) = Brewer THEN {\h00, \h20, \h1D, \h05, \h45, \h85}
  ELSE IF Build(b) = Vid80 THEN {\h05} ELSE {}

\* First and last address of every region.
RegionStarts ==
  {\h1000, \h3000, \h3400, \h3600, \h37E0, \h37E4, \h37E8, \h37EA, \h37F0, \h3800, \h3900, \h3C00,
   \h4000, \h4400, \h4800, \h4C00, \h8000, \hB000, \hC000, \hE000, \hEC00, \hEFE0, \hEFF0, \hF000,
   \hF400, \hF700, \hF7E0, \hF800, \hF900, \hFC00}
McAddresses == {0, \hFFFF} \cup RegionStarts \cup {a - 1 : a \in RegionStarts}

=============================================================================
