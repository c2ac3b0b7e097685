----------------------------- MODULE MCScanner ------------------------------
(* A small instance of Scanner: rasters that fit, that just reach the edge of
   the range and that run over it, an empty line and a raster without lines. *)
EXTENDS Scanner

Raster4(nx, ny, bx, by, f) ==
    [nPoints_x |-> nx, nPoints_y |-> ny, betweenPoints_x |-> bx,
     betweenPoints_y |-> by, flag |-> f]

MCConfigs == {Raster4(2, 2, 1, 1, 1), Raster4(2, 3, 2, 1, 0),
              Raster4(0, 2, 1, 2, 0), Raster4(3, 1, 1, 0, 1)}
MCTargets == {[x |-> 1, y |-> 0], [x |-> 3, y |-> 3]}
=============================================================================
