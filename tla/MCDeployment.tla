---------------------------- MODULE MCDeployment ----------------------------
EXTENDS Deployment

\* One row: the statements that look at rows look at each on its own.
MCRowIds == {1}

\* Heads between which lie the conversions of 0030, the drop of 0032, the kinds
\* of 0034, the cancellations of 0035 and 0036, and the channels of 0041, 0042.
MCHeadOf == <<12, 29, 33, 41, 43>>
=============================================================================
