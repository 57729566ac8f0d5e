----------------------------- MODULE MCPrograms -----------------------------
(* A volume with a directory in a directory and a file in each; the places of  *)
(* the pointer are the boxes of the title bar, open and full screen, and the   *)
(* edges of the window and of the screen.  Two of the pointer's pixels: at     *)
(* <<0, 0>> the window has the second, and at <<8, 10>> its first is there.    *)
EXTENDS Programs

a == 97
b == 98
MCTree == <<<<a>>>> :> "dir" @@ <<<<b>>>> :> "file" @@ <<<<a>>, <<a>>>> :> "dir" @@ <<<<a>>, <<b>>>> :> "file"
MCArguments == {<<a>>, <<b>>, <<47, a>>, <<a, 47>>, <<47>>, <<a, 47, b>>, <<114, 47, a>>}
MCNumbers == {-1, 0, 3, -32768}
MCPlaces == {<<0, 0>>, <<8, 10>>, <<450, 15>>, <<490, 20>>, <<-3, 30>>, <<1870, 10>>, <<1900, 10>>, <<1910, 1070>>}
MCCursor == {<<2, 0>>, <<10, 10>>}
=============================================================================
