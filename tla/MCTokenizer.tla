----------------------------- MODULE MCTokenizer -----------------------------
(* All command lines of up to seven characters.                            *)
EXTENDS Tokenizer, SequencesExt

ShortLines == SeqOf({"x", "space", "quote"}, 7)

=============================================================================
