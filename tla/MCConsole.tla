------------------------------ MODULE MCConsole ------------------------------
(* A row of five cells, a prompt of two and lines of at most two characters. *)
EXTENDS Console

ShortPrompt == <<">", " ">>
OneLine == with_color("LightBlue", <<Println(<<"t", "t", "t", "t", "t", "t">>)>>)
SomeOutputs == {<<>>, OneLine}

=============================================================================
