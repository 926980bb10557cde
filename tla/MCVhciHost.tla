----------------------------- MODULE MCVhciHost ------------------------------
EXTENDS VhciHost

CONSTANTS MaxId

MCThreads == {"driver", "hub", "audio"}
MCQids == 2..MaxId
=============================================================================
