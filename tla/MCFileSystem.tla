---------------------------- MODULE MCFileSystem ----------------------------
(***************************************************************************)
(* FileSystem for TLC: two sound images, and all that differ from one of   *)
(* them in at most two places.                                             *)
(***************************************************************************)
EXTENDS FileSystem

None == <<>>
Node(type, links, size, ptr) == [type |-> type, links |-> links, size |-> size, ptr |-> ptr]
Entry(name, inode) == [name |-> name, inode |-> inode]

\* A root, a file with pointer blocks of all levels and a second name, a directory
\* with a pointer block, a symbolic link and a free inode; block 25 is free.
Flat ==
  [ inode |-> << Node("none", 0, 0, None),
                 Node("d", 3, 0, 0 :> 8),
                 Node("f", 2, 0, 0 :> 12 @@ 12 :> 13 @@ 13 :> 16 @@ 14 :> 20),
                 Node("d", 2, 0, 0 :> 9 @@ 12 :> 10),
                 Node("s", 1, 61, 0 :> 24),
                 Node("none", 0, 0, None) >>,
    table |-> [b \in 0 .. NumBlocks - 1 |->
                 CASE b = 10 -> 0 :> 11
                   [] b = 13 -> 0 :> 14 @@ 3 :> 15
                   [] b = 16 -> 1 :> 17
                   [] b = 17 -> 0 :> 18 @@ 2 :> 19
                   [] b = 20 -> 0 :> 21
                   [] b = 21 -> 0 :> 22
                   [] b = 22 -> 0 :> 23
                   [] OTHER -> None],
    entries |-> 8 :> <<Entry(".", 2), Entry("..", 2), Entry("x", 3), Entry("x", 4), Entry("x", 5),
                       Entry("x", 0)>>
             @@ 9 :> <<Entry(".", 4), Entry("..", 2)>>
             @@ 11 :> <<Entry("x", 3)>>,
    freeB |-> {25}, freeI |-> {6} ]

\* Inode 5 is a directory, and directory 4 is below it.
Nested ==
  [ Flat EXCEPT
    !.inode[5] = Node("d", 3, 0, 0 :> 24),
    !.entries = 8 :> <<Entry(".", 2), Entry("..", 2), Entry("x", 3), Entry("x", 5)>>
             @@ 9 :> <<Entry(".", 4), Entry("..", 5)>>
             @@ 11 :> <<Entry("x", 3)>>
             @@ 24 :> <<Entry(".", 5), Entry("..", 2), Entry("x", 4)>> ]

Put(f, x, v) == [y \in DOMAIN f \cup {x} |-> IF y = x THEN v ELSE f[y]]
Drop(f, x) == [y \in DOMAIN f \ {x} |-> f[y]]
Toggle(S, x) == IF x \in S THEN S \ {x} ELSE S \cup {x}

\* What may differ: <<what, where, where in it, new value>>.
Edits ==
       {<<"ptr", 3, 0, b>> : b \in {3, 14, 24, 25, 26}}
  \cup {<<"ptr", 3, 1, b>> : b \in {7, 9, 12, 26}}
  \cup {<<"ptr", 3, 12, b>> : b \in {16, 25}} \cup {<<"drop", 3, 0, 0>>, <<"drop", 3, 13, 0>>}
  \cup {<<"ptr", 4, 0, 8>>, <<"ptr", 4, 1, 11>>}
  \cup {<<"ptr", 5, 1, b>> : b \in {7, 12, 24, 25, 26}}
  \cup {<<"table", 13, 3, b>> : b \in {3, 12, 25, 26}}
  \cup {<<"table", 13, 1, 25>>, <<"table", 17, 2, 24>>, <<"table", 20, 0, 16>>, <<"table", 21, 2, 25>>}
  \cup {<<"freeB", b, 0, 0>> : b \in {5, 12, 18, 24, 25, 27}}
  \cup {<<"freeI", n, 0, 0>> : n \in {1, 3, 5, 6, 9}}
  \cup {<<"links", 3, 0, 0>>, <<"links", 3, 0, 1>>, <<"links", 4, 0, 3>>, <<"links", 4, 0, 0>>}
  \cup {<<"type", 3, 0, "?">>, <<"type", 6, 0, "f">>, <<"type", 4, 0, "none">>}
  \cup {<<"size", 5, 0, s>> : s \in {59, 60}}
  \cup {<<"entry", 8, 3, n>> : n \in {0, 4, 6, 7}} \cup {<<"entry", 8, 1, 4>>, <<"entry", 8, 4, 3>>}
  \cup {<<"entry", 9, 2, n>> : n \in {2, 4, 5}} \cup {<<"entry", 11, 1, n>> : n \in {4, 5}}

Edited(image, e) ==
  CASE e[1] = "ptr" -> [image EXCEPT !.inode[e[2]].ptr = Put(@, e[3], e[4])]
    [] e[1] = "drop" -> [image EXCEPT !.inode[e[2]].ptr = Drop(@, e[3])]
    [] e[1] = "table" -> [image EXCEPT !.table[e[2]] = Put(@, e[3], e[4])]
    [] e[1] = "freeB" -> [image EXCEPT !.freeB = Toggle(@, e[2])]
    [] e[1] = "freeI" -> [image EXCEPT !.freeI = Toggle(@, e[2])]
    [] e[1] = "links" -> [image EXCEPT !.inode[e[2]].links = e[4]]
    [] e[1] = "type" -> [image EXCEPT !.inode[e[2]].type = e[4]]
    [] e[1] = "size" -> [image EXCEPT !.inode[e[2]].size = e[4]]
    [] e[1] = "entry" -> [image EXCEPT !.entries[e[2]][e[3]].inode = e[4]]

\* The edits that a sound image admits: a directory keeps blocks of entries.
EditsOf(image) ==
  {e \in Edits : image.inode[5].type = "d" => ~(e[1] = "ptr" /\ e[2] = 5)}

SmallImages ==
  UNION { {Edited(Edited(image, e), f) : e, f \in EditsOf(image)} \cup {image} :
          image \in {Flat, Nested} }
=============================================================================
