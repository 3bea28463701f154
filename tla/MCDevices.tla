------------------------------ MODULE MCDevices ------------------------------
EXTENDS Devices, TLC

\* The ordering table: entries 2, 1, 0; two packets of a header and a word
MCTable == [base |-> 2, size |-> 3]
MCPackets == {3, 5}

Start(s, d, st) == [enable |-> TRUE, trigger |-> TRUE, sync |-> s,
                    direction |-> d, step |-> st]

\* Starts of the table's clearing and of the list, a channel that is enabled
\* and not triggered, and the starts do_dma refuses
TableControls ==
  {[port |-> "Otc", control |-> Start("Manual", "ToRam", "Decrement")],
   [port |-> "Otc", control |-> Start("Manual", "FromRam", "Decrement")],
   [port |-> "Gpu", control |-> Start("LinkedList", "FromRam", "Increment")],
   [port |-> "Gpu", control |-> Start("LinkedList", "ToRam", "Increment")],
   [port |-> "Gpu", control |->
      [Start("Manual", "FromRam", "Increment") EXCEPT !.trigger = FALSE]]}

\* Uploads of all the matrices, of 2 words each, and an unsupported opcode
MCStream == 0 :> "color_quant" @@ 5 :> "monochrome_quant" @@ 8 :> "command"
              @@ 9 :> "idct"

MCSpuStores ==
  ({"transfer_start"} \X {0, 1}) \cup ({"transfer_fifo"} \X (1 .. 8))
    \cup {<<"voice_on", {1}>>, <<"voice_off", {1}>>, <<"control", 33>>}
=============================================================================
