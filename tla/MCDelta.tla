------------------------------ MODULE MCDelta ------------------------------
(* Packages, differences, tools and faults for the model checker. *)
EXTENDS Delta

CONSTANTS w1, w2
MCWorkers == {w1, w2}

Data(b)           == [form |-> "data", blocks |-> b]
Squash(b)         == [form |-> "squash", blocks |-> b, packed |-> TRUE]
Patch(a, from, to) == [form |-> a, base |-> from, image |-> to, pieces |-> Len(to.blocks), blocks |-> <<>>]
Cut(p)            == [p EXCEPT !.pieces = 1]
Packed(comp, c)   == [form |-> "packed", comp |-> comp, of |-> c, blocks |-> <<>>]

d1 == Data(<<1, 2>>)
d2 == Data(<<1, 3, 2>>)
d3 == Data(<<2>>)
q1 == Squash(<<1>>)
q2 == Squash(<<1, 2>>)
Empty == Data(<<>>)
NoFiles == [n \in {} |-> Empty]
Only(n, c) == [m \in {n} |-> c]
And(f, n, c) == [m \in DOMAIN f \cup {n} |-> IF m = n THEN c ELSE f[m]]

\* Elements of a file node.
El(t, v)    == [tag |-> t, val |-> v]
Sha(o, n)   == [tag |-> "sha256", old |-> o, new |-> n]
Nest(s, o)  == [tag |-> "nesting", has |-> s, options |-> o, format |-> None, compression |-> None]
Single(f, c) == [tag |-> "nesting", has |-> {"single-file-delta"}, options |-> None, format |-> f, compression |-> c]
Node(p, n)  == [parent |-> p, node |-> n]

Added1(n, c)     == Node("added", <<El("name", n), Sha(None, c)>>)
Removed1(n)      == Node("removed", <<El("name", n)>>)
Unchanged1(n, c) == Node("unchanged", <<El("name", n), Sha(c, c)>>)
Changed1(n, from, to, f, c) ==
  Node("changed", <<El("name", n), Sha(from, to), El("format", f), El("compression", c)>>)
Renamed(n, old, from, to, f, c) ==
  Node("changed", <<El("name", n), El("oldName", old), Sha(from, to), El("format", f), El("compression", c)>>)
Image1(n, from, to, f, o) ==
  Node("changed", <<El("name", n), Sha(from, to), Nest({"un-squash-fs"}, o),
                    Nest({"squash-fs-uncompressed"}, None), Single(f, "none")>>)

Job(base, files, manifest, target) ==
  [kind |-> "delta", base |-> base, target |-> target,
   diff |-> And(And(files, "manifest.xml", Data(<<0>>)), "manifest_diff.xml", manifest)]
Whole(kind) == [kind |-> kind, base |-> Only("a", d1), target |-> None, diff |-> Only("a", d1)]

Base == And(And(Only("a", d1), "b", d3), "c", d2)

Mixed(f) == Job(Base, And(Only("a", Patch(f, d1, d2)), "d", d3),
                <<Added1("d", d3), Removed1("c"), Unchanged1("b", d3), Changed1("a", d1, d2, f, "xz")>>,
                And(And(Only("a", d2), "b", d3), "d", d3))
\* A smaller file under a new name, from differences compressed with c.
Rename(f, c) == Job(Only("c", d2), Only("a", Packed(c, Patch(f, d2, d3))),
                    <<Renamed("a", "c", d2, d3, f, c)>>, Only("a", d3))
Replace(c) == Job(Only("a", d1), Only("a", Packed(c, d2)), <<Changed1("a", d1, d2, "none", c)>>, Only("a", d2))
SquashFs(f, o) == Job(Only("a", q1), Only("a", Patch(f, Loose(q1), Loose(q2))),
                      <<Image1("a", q1, q2, f, o)>>, Only("a", q2))
Share(f) == Job(Only("a", d1), And(Only("a", Patch(f, d1, d2)), "b", Patch(f, d1, d3)),
                <<Changed1("a", d1, d2, f, "none"), Renamed("b", "a", d1, d3, f, "none")>>,
                And(Only("a", d2), "b", d3))
\* A file gives way to another of its name, before or after its content has been used.
Swap(f, first, second) ==
  Job(Only("a", d1), And(Only("b", Patch(f, d1, d2)), "a", d3), <<first, second>>, And(Only("b", d2), "a", d3))
Moved(f)    == Swap(f, Renamed("b", "a", d1, d2, f, "none"), Added1("a", d3))
TooLate(f)  == Swap(f, Added1("a", d3), Renamed("b", "a", d1, d2, f, "none"))
Emptied(f) == Job(Only("a", d1), Only("a", Patch(f, d1, Empty)),
                  <<Changed1("a", d1, Empty, f, "none")>>, Only("a", Empty))
\* Differences that are damaged or meant for something else.
OtherBase == Job(Only("a", d3), Only("a", Patch("esdiff", d1, d2)), <<Changed1("a", d1, d2, "esdiff", "none")>>, None)
Lost      == Job(Only("a", d1), NoFiles, <<Changed1("a", d1, d2, "esdiff", "none")>>, None)
CutPatch  == Job(Only("a", d1), Only("a", Cut(Patch("esdiff", d1, d2))), <<Changed1("a", d1, d2, "esdiff", "none")>>, None)
BadSha    == Job(Only("a", d1), Only("d", d3), <<Added1("d", d2)>>, None)
NoMethod  == Job(Only("a", d1), Only("a", d2), <<Node("changed", <<El("name", "a"), Sha(d1, d2)>>)>>, None)
NoBackup  == [OtherBase EXCEPT !.base = NoFile]

AllJobs == {Mixed("esdiff"), Rename("rfc3284", "gzip"), Replace("xz"), SquashFs("esdiff", "kept"),
           SquashFs("esdiff", "cut"), Share("esdiff"), Moved("esdiff"),
           TooLate("esdiff"), Emptied("esdiff"), OtherBase, Lost, CutPatch,
           BadSha, NoMethod, NoBackup, Whole("full"), Whole("prepared")}

MCJobs == [w \in Workers |-> IF w = w1 THEN AllJobs ELSE {Moved("esdiff")}]

AllCommands == {"bspatch", "xdelta3", "espatch", "gzip", "bzip2", "xz"}
MCCommands == {AllCommands, AllCommands \ {"xdelta3", "xz"}}

Plain == [patch |-> <<>>, decomp |-> <<>>, cap |-> None]
MCConfigs == {Plain, [Plain EXCEPT !.decomp = <<[Tool("xz", "xz", FALSE) EXCEPT !.args = FALSE]>>]}
============================================================================
