----------------------------- MODULE MCTensorTypes -----------------------------
(* Shapes for TLC: a scalar, no elements, a dynamic dimension, and numbers of  *)
(* elements on both sides of the inline limit for each width.                  *)
EXTENDS TensorTypes

MCShapes == {<<>>, <<0>>, <<3>>, <<64>>, <<5, 13>>, <<2, 64>>, <<129>>, <<257>>,
             <<-1, 3>>, <<-1, -1>>}
===============================================================================
