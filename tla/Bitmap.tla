------------------------------- MODULE Bitmap -------------------------------
(***************************************************************************)
(* lib/bitmap.h.  An array of unsigned int is the set of its bits that are *)
(* 1, each named by its word and its position there.  The word of index i  *)
(* is found by dividing by the bits of a word, but the position by the     *)
(* remainder modulo sizeof(unsigned int), its bytes: eight indices of a    *)
(* word share each of four bits, and the other bits are never used.        *)
(***************************************************************************)
EXTENDS Integers

SizeofInt == 4

BitOf(i) == <<i \div (SizeofInt * 8), i % SizeofInt>>

SetBitmap(bitmap, i) == bitmap \cup {BitOf(i)}

\* A ClearBitmap that clears the whole word.
ClearBitmapWord(bitmap, i) == {b \in bitmap : b[1] # BitOf(i)[1]}

ClearBitmap(bitmap, i) == bitmap \ {BitOf(i)}

IsBitmapSet(bitmap, i) == BitOf(i) \in bitmap

=============================================================================
