---------------------------- MODULE MCAudioDevice ----------------------------
EXTENDS AudioDevice

CONSTANTS Speaker, Codec

MCDevs == {Speaker, Codec}
=============================================================================
