------------------------------ MODULE MCSdCard ------------------------------
(* SdCard with a card that is supported and, for all but the finding, one   *)
(* that is not, two blocks of two words each, a pipeline of one word, a     *)
(* pool that both threads together can just not empty, and one turn of the  *)
(* loop over ACMD41.  The counter wraps as that of the hardware does: a     *)
(* block has as many bits as the counter has values.                        *)
EXTENDS SdCard

=============================================================================
