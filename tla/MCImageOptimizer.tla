-------------------------- MODULE MCImageOptimizer --------------------------
(* Two images; a photograph that shrinks each of the first two times it is *)
(* encoded, a drawing that never does, and a file that is no image.        *)
EXTENDS ImageOptimizer, TLC

MCImages   == <<"logo", "photo">>
MCContents == {"jpeg", "jpeg1", "jpeg2", "png", "junk"}
MCSize     == "jpeg" :> 5 @@ "jpeg1" :> 4 @@ "jpeg2" :> 3 @@ "png" :> 2 @@ "junk" :> 1
MCEncode   == "jpeg" :> "jpeg1" @@ "jpeg1" :> "jpeg2" @@ "jpeg2" :> "jpeg2"
              @@ "png" :> "png" @@ "junk" :> None
=============================================================================
