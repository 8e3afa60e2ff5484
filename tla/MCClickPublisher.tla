-------------------------- MODULE MCClickPublisher --------------------------
EXTENDS ClickPublisher
CONSTANTS h1, h2
MCHandler == {h1, h2}
=============================================================================
