----------------------------- MODULE MCSpiFlash -----------------------------
(* SpiFlash with eight bytes: pages of two, sectors of two pages, and read  *)
(* blocks of three, so that calls of up to five bytes start and end at      *)
(* every place in a page and span pages, sectors and blocks.                *)
EXTENDS SpiFlash

MCErasePages == {0, 2}
MCEraseBytes == {0}

=============================================================================
