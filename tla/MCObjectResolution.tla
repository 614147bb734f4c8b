------------------------- MODULE MCObjectResolution -------------------------
(***************************************************************************)
(* Instances of ObjectResolution for TLC: up to MaxFiles files called foo, *)
(* at the loaded path in two directories, elsewhere, under a suffix and in *)
(* an archive, each the stripped object, its twin with DWARF, a rebuild    *)
(* with other lines, with other code or of another size, an object for     *)
(* another machine, one with two sections of one name in either order, one *)
(* with another before its own, one with long section names, or no object  *)
(* at all; up to MaxRivals of the first four kinds.                        *)
(***************************************************************************)
EXTENDS ObjectResolution, TLC

CONSTANTS
  MaxFiles,   (* bound: files on the path, of any kind                     *)
  MaxRivals   (* bound: files on the path, of the Rivalling kinds          *)

Place(d, at, suffix, member) ==
  [dir |-> d, at |-> at, base |-> "foo", suffix |-> suffix, member |-> member]

MCWalk == (Place(1, "p", "", FALSE) :> 1) @@ (Place(1, "p", ".dbg", FALSE) :> 2)
       @@ (Place(1, "q", "", FALSE) :> 3) @@ (Place(2, "lib", "", TRUE) :> 4)
       @@ (Place(2, "p", "", FALSE) :> 5)
MCPlaces == DOMAIN MCWalk
MCSuffixes == <<"", ".dbg">>

Sec(name, body, relocs) ==
  [name |-> name, alloc |-> TRUE, exec |-> TRUE, body |-> body, relocs |-> relocs]
Text == <<".text", "">>

Object(sections, debug) ==
  [elf |-> TRUE, machine |-> "rv", debug |-> debug, build |-> 1,
   sections |-> sections]

Plain    == Object(<<Sec(Text, <<0, 3, 1>>, 2 :> "uleb"),
                     [Sec(<<".note", "">>, <<0>>, <<>>) EXCEPT !.alloc = FALSE]>>,
                   FALSE)
Twin     == [Plain EXCEPT !.debug = TRUE]
Lines    == [Twin EXCEPT !.build = 2]
Rebuilt  == Object(<<Sec(Text, <<1, 3, 1>>, 2 :> "uleb")>>, TRUE)
Shorter  == Object(<<Sec(Text, <<0>>, <<>>)>>, TRUE)
Foreign  == [Rebuilt EXCEPT !.machine = "arm"]
Comdat   == Object(<<Sec(Text, <<0>>, <<>>), Sec(Text, <<1, 0>>, 2 :> "word")>>, TRUE)
Swapped  == [Comdat EXCEPT !.sections = <<@[2], @[1]>>]
Long     == Object(<<Sec(<<".text.f", "a">>, <<0>>, <<>>),
                     Sec(<<".text.f", "b">>, <<1, 1>>, 1 :> "odd")>>, FALSE)
Extra    == [Rebuilt EXCEPT !.sections = <<Sec(Text, <<0>>, <<>>), @[1]>>]
Garbage  == [elf |-> FALSE, machine |-> "", debug |-> FALSE, build |-> 1,
             sections |-> <<>>]

MCContents ==
  {Plain, Twin, Lines, Rebuilt, Shorter, Foreign, Comdat, Swapped, Long,
   Extra, Garbage}

(* Those that can rival each other for one loaded object. *)
Rivalling == {Plain, Twin, Lines, Rebuilt}

PathsOf(contents, bound) ==
  UNION {[S -> contents] : S \in {P \in SUBSET MCPlaces : Cardinality(P) <= bound}}

MCPaths == PathsOf(MCContents, MaxFiles) \cup PathsOf(Rivalling, MaxRivals)

Obj(at, base, content, bytes, cut, ran) ==
  [name |-> [at |-> at, base |-> base], content |-> content, bytes |-> bytes,
   cut |-> cut, common |-> cut, ran |-> ran]

MCRuns ==
  LET foo == Obj("p", "foo", Plain, TRUE, FALSE, TRUE)
  IN {<<<<foo, [foo EXCEPT !.content = Rebuilt]>>>>,
      <<<<foo, [foo EXCEPT !.name.at = "q"]>>>>,
      <<<<[foo EXCEPT !.content = Comdat, !.ran = FALSE], [foo EXCEPT !.content = Comdat]>>,
       <<foo>>>>,
      <<<<[foo EXCEPT !.bytes = FALSE]>>, <<[foo EXCEPT !.name.base = "bar"]>>>>,
      <<<<[foo EXCEPT !.name.base = "bar"]>>, <<foo>>>>,
      <<<<Obj("p", "foo", Long, TRUE, TRUE, TRUE)>>>>}
MCLoaderWidths == [word |-> 1, uleb |-> 0, odd |-> 1]
MCWidths == [word |-> 1, uleb |-> 0]
=============================================================================
