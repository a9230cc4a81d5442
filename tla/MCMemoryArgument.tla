-------------------------- MODULE MCMemoryArgument --------------------------
(* MemoryArgument for TLC: decimal (with a space in front) and hexadecimal *)
(* texts, and an empty one.                                                *)
EXTENDS MemoryArgument

ShortName == <<"C", "R">>
SomeTexts == {<<"$", "2", "1">>, <<>>, <<" ", "2">>}

=============================================================================
