------------------------------ MODULE MCSweep -------------------------------
(* Two files, two modes that fit together out of four, two clients.        *)
EXTENDS Sweep

MCPaths == <<"f.cmd", "g.cmd">>
MCReductions == <<"D", "X", "S">>
MCProcessings == <<"URAN", "SLRY">>
MCReductionModes == {"T", "D", "S"}
MCProcessingModes == {"URAN", "SLRY", "NNNN"}
MCMixedModes == {"D", "S"}
MCRenewModes == {"SLRY"}
MCNoMode == <<"no", "mode">>
=============================================================================
